---- MODULE Spec2Model ----
(***************************************************************************)
(* Multi-source stock listing pipelines of scripts/*.py.                   *)
(*                                                                         *)
(* A Python string is a sequence of one-character strings, so that         *)
(* str.strip(), str.upper(), str.isdigit() and len() are computed and not  *)
(* assumed.  A record is a TLA+ record with the field names of the source. *)
(***************************************************************************)
EXTENDS Integers, Sequences, FiniteSets, TLC

\* ------------------------------------------------------------------ bounds
\* longest list handed to the dedup stage on its own (SpecDedup)
MaxLen == 3

\* most raw records one source call returns
MaxRecs == 2

\* most raw records all the sources of one run return together
MaxSupplied == 2

\* largest max_retries a run is started with
MaxRetries == 2

\* most item links on one search result page
MaxLinks == 6

\* ------------------------------------------------------- Python str values
Digits == {"0", "1", "2", "3", "4", "5", "6", "7", "8", "9"}

Whitespace == {" "}

\* None, as returned by dict.get for a missing column
NoneVal == <<"None">>

\* bool(v) of a str or None
Truthy(v) == v # NoneVal /\ v # <<>>

RECURSIVE LStrip(_)
LStrip(s) == IF s # <<>> /\ Head(s) \in Whitespace THEN LStrip(Tail(s)) ELSE s

RECURSIVE RStrip(_)
RStrip(s) ==
    IF s # <<>> /\ s[Len(s)] \in Whitespace
    THEN RStrip(SubSeq(s, 1, Len(s) - 1))
    ELSE s

\* str.strip()
Strip(s) == RStrip(LStrip(s))

UpperChar(c) ==
    CASE c = "a" -> "A"
      [] c = "b" -> "B"
      [] c = "p" -> "P"
      [] c = "l" -> "L"
      [] OTHER -> c

\* str.upper()
Upper(s) == [i \in 1..Len(s) |-> UpperChar(s[i])]

\* str.isdigit(): false for the empty string
IsDigit(s) == s # <<>> /\ \A i \in 1..Len(s) : s[i] \in Digits

\* the shape test "code.isdigit() and len(code) == 6"
IsKRCode(s) == IsDigit(s) /\ Len(s) = 6

\* -------------------------------------------------------------- raw values
K5930 == <<"0", "0", "5", "9", "3", "0">>

K5930Pad == <<" ">> \o K5930

K0644 == <<"0", "6", "4", "4", "0", "0">>

K0644Pad == K0644 \o <<" ">>

K5Digit == <<"0", "0", "5", "9", "3">>

AAPL == <<"A", "A", "P", "L">>

aapl == <<"a", "a", "p", "l">>

AAPLPad == <<" ">> \o AAPL \o <<" ">>

Blank == <<" ">>

Empty == <<>>

NameA == <<"a">>

NameAB == <<"a", "b">>

NameABC == <<"a", "b", "c">>

NameAPad == <<"a", " ", " ">>

NameABPad == <<"a", "b", " ", " ">>

\* the overlay entry's name (LG CNS), abbreviated
NameLG == <<"L", "G">>

\* a record as pandas' to_dict('records') or a scraper builds it
Rec(sym, name, market) == [Symbol |-> sym, Name |-> name, Market |-> market]

\* all sequences over S of length at most n
BoundedSeq(S, n) == UNION {[1..k -> S] : k \in 0..n}

\* --------------------------------------------------------- program state
VARIABLES
    prog,          \* the entry point being run
    pc,            \* the step the run is at
    max_retries,   \* parameter of the retry loops
    attempt,       \* loop variable of the retry loop
    retry,         \* per retry loop: the fdr.StockListing calls made, how many raised, the sleeps
    fdr_success,   \* flag of get_comprehensive_stock_listing
    all_stocks,    \* the accumulated list
    existing_codes, \* existing_codes / existing_symbols of generate_symbols_json
    sources_used,  \* the audit list
    final_stocks,  \* the list returned
    result,        \* the dict returned (or printed) at the end
    trace,         \* what each source step returned, in the order the steps ran
    locals         \* local state of the adapter or inner loop in progress

vars == <<prog, pc, max_retries, attempt, retry, fdr_success, all_stocks,
          existing_codes, sources_used, final_stocks, result, trace, locals>>

NoResult == [success |-> FALSE, count |-> 0, source |-> "none"]

\* no adapter in progress
NoLocals ==
    [market |-> "none", page |-> 0, stocks |-> <<>>, codes |-> {}, failed |-> FALSE,
     last_error |-> <<>>, ticker_info |-> <<>>, stock_name |-> <<>>,
     env |-> {}, requested |-> {}]

\* ---------------------------------------------------- bookkeeping of a run
RECURSIVE SuppliedCount(_)
SuppliedCount(tr) ==
    IF tr = <<>> THEN 0 ELSE Len(Head(tr).data) + SuppliedCount(Tail(tr))

\* how many more raw records the sources of this run may return
Budget == MaxSupplied - SuppliedCount(trace) - Len(locals.stocks)

Min(a, b) == IF a < b THEN a ELSE b

\* the lists a source may return now
Lists(D) == BoundedSeq(D, Min(MaxRecs, Budget))

NonEmptyLists(D) == Lists(D) \ {<<>>}

Step(src, ok, data) == [src |-> src, ok |-> ok, data |-> data]

\* {s.get('Symbol') for s in all_stocks}
SymbolsOf(stocks) == {stocks[i].Symbol : i \in 1..Len(stocks)}

\* [s for s in data if s.get('Symbol') not in existing_symbols]
NewStocks(data, existing) == SelectSeq(data, LAMBDA s : s.Symbol \notin existing)

Used(label, n) == [label |-> label, n |-> n]

\* ------------------------------------ get_comprehensive_stock_listing (KR)
CompKR == "get_comprehensive_stock_listing"

\* rows the KRX listing (or a CSV of it) can hold
FrameRecs ==
    { Rec(K5930, NameA, "KOSPI"), Rec(K5930, NameAB, "KRX"),
      Rec(K5930, Blank, "KOSPI"), Rec(K5Digit, NameA, "KOSPI"),
      Rec(K0644, NameA, "KOSPI") }

\* rows the supplementing frames (KOSDAQ listing, GitHub CSV) can hold
LaterRecs ==
    { Rec(K5930, NameAB, "KOSDAQ"), Rec(K5930Pad, NameABC, "KOSDAQ"),
      Rec(K0644, NameA, "KOSDAQ"), Rec(K0644Pad, NameABC, "KOSDAQ") }

\* what one call of fdr.StockListing does: raise json.JSONDecodeError, raise
\* another exception, return None or an empty frame (or one with none of the
\* wanted columns, which both loops treat the same way), or return rows
FdrOutcomesOf(D) ==
    {[kind |-> k, data |-> <<>>] : k \in {"json", "exc", "empty"}}
        \cup {[kind |-> "ok", data |-> d] : d \in NonEmptyLists(D)}

FdrOutcomes == FdrOutcomesOf(FrameRecs)

\* a loop that stops at the first failed attempt
LoopBreaksAtOnce == FALSE

\* the retry loop goes to its next iteration, or is exhausted
LoopContinues == attempt + 1 < max_retries

NoRetries == [m \in {"KRX", "KOSDAQ"} |-> [calls |-> 0, raised |-> 0, slept |-> <<>>]]

\* default of the retry_delay parameter
retry_delay == 2

\* a loop without the break: control stays in the loop after a success
BreakMissing(next) == pc

\* the break after a successful attempt: control goes to the step after the loop
Break(next) == next

\* a loop body that counts its waits from one: it sleeps before every call,
\* the first included, retry_delay * (attempt + 1)
AttemptLogWaitsFirst(log, kind) ==
    [calls |-> log.calls + 1,
     raised |-> IF kind \in {"json", "exc"} THEN log.raised + 1 ELSE log.raised,
     slept |-> Append(log.slept, retry_delay * (attempt + 1))]

\* the loop body up to and including the call: sleep when attempt > 0, then call
AttemptLog(log, kind) ==
    [calls |-> log.calls + 1,
     raised |-> IF kind \in {"json", "exc"} THEN log.raised + 1 ELSE log.raised,
     slept |-> IF attempt > 0 THEN Append(log.slept, retry_delay * attempt) ELSE log.slept]

\* one iteration of the first retry loop: fdr.StockListing('KRX')
FdrKrxAttempt ==
    /\ prog = CompKR
    /\ pc = "fdr_krx"
    /\ attempt < max_retries
    /\ \E out \in FdrOutcomes :
        /\ retry' = [retry EXCEPT !["KRX"] = AttemptLog(@, out.kind)]
        /\ IF out.kind = "ok"
           THEN /\ all_stocks' = all_stocks \o out.data
                /\ sources_used' = Append(sources_used,
                                          Used("FinanceDataReader KRX", Len(out.data)))
                /\ fdr_success' = TRUE
                /\ pc' = Break("fdr_kosdaq")
                /\ attempt' = 0
                /\ trace' = Append(trace, Step("fdr_krx", TRUE, out.data))
           ELSE /\ UNCHANGED <<all_stocks, sources_used, fdr_success>>
                /\ IF LoopContinues
                   THEN /\ attempt' = attempt + 1
                        /\ UNCHANGED <<pc, trace>>
                   ELSE /\ attempt' = 0
                        /\ pc' = "fdr_kosdaq"
                        /\ trace' = Append(trace, Step("fdr_krx", retry'["KRX"].raised < max_retries,
                                                           <<>>))
    /\ UNCHANGED <<prog, max_retries, existing_codes, final_stocks, result, locals>>

\* one iteration of the second retry loop: fdr.StockListing('KOSDAQ')
FdrKosdaqAttempt ==
    /\ prog = CompKR
    /\ pc = "fdr_kosdaq"
    /\ attempt < max_retries
    /\ \E out \in FdrOutcomesOf(LaterRecs) :
        LET new_stocks == NewStocks(out.data, SymbolsOf(all_stocks))
        IN  /\ retry' = [retry EXCEPT !["KOSDAQ"] = AttemptLog(@, out.kind)]
            /\ IF out.kind = "ok"
               THEN /\ all_stocks' = all_stocks \o new_stocks
                    /\ sources_used' =
                         IF new_stocks # <<>>
                         THEN Append(sources_used,
                                     Used("FinanceDataReader KOSDAQ", Len(new_stocks)))
                         ELSE sources_used
                    /\ fdr_success' = TRUE
                    /\ pc' = Break("github_csv")
                    /\ attempt' = attempt
                    /\ trace' = Append(trace, Step("fdr_kosdaq", TRUE, out.data))
               ELSE /\ UNCHANGED <<all_stocks, sources_used, fdr_success>>
                    /\ IF LoopContinues
                       THEN /\ attempt' = attempt + 1
                            /\ UNCHANGED <<pc, trace>>
                       ELSE /\ attempt' = attempt
                            /\ pc' = "github_csv"
                            /\ trace' = Append(trace,
                                    Step("fdr_kosdaq", retry'["KOSDAQ"].raised < max_retries,
                                         <<>>))
    /\ UNCHANGED <<prog, max_retries, existing_codes, final_stocks, result, locals>>

\* get_stock_listing_from_github() and step 3 of the pipeline
GithubOutcomes ==
    {[success |-> FALSE, data |-> <<>>]}
        \cup {[success |-> TRUE, data |-> d] : d \in Lists(LaterRecs)}

GithubCsvStepKR ==
    /\ prog = CompKR
    /\ pc = "github_csv"
    /\ \E github_result \in GithubOutcomes :
        LET new_stocks == NewStocks(github_result.data, SymbolsOf(all_stocks))
        IN  /\ all_stocks' = all_stocks \o new_stocks
            /\ sources_used' =
                 IF github_result.success /\ new_stocks # <<>>
                 THEN Append(sources_used,
                             Used(IF fdr_success THEN "GitHub CSV (complement" ELSE "GitHub CSV",
                                  Len(new_stocks)))
                 ELSE sources_used
            /\ trace' = Append(trace, Step("github_csv", github_result.success,
                                           github_result.data))
    /\ pc' = "naver_all"
    /\ UNCHANGED <<prog, max_retries, attempt, retry, fdr_success, existing_codes,
                   final_stocks, result, locals>>

\* rows of the portal's tables: get_text(strip=True) of the name and code cells
PortalRows ==
    { Rec(K5930, NameABC, "row"), Rec(K5Digit, NameA, "row"), Rec(K5930, Empty, "row") }

\* the row filter of get_stock_listing_from_naver_all_stocks
KeptAllStocksRow(r) == Truthy(r.Name) /\ Truthy(r.Symbol) /\ IsKRCode(r.Symbol)

\* the row filter of get_stock_listing_from_naver (ETF): no length test
KeptEtfRow(r) == Truthy(r.Name) /\ Truthy(r.Symbol) /\ IsDigit(r.Symbol)

Relabel(rows, market) == [i \in 1..Len(rows) |-> Rec(rows[i].Symbol, rows[i].Name, market)]

\* get_stock_listing_from_naver_all_stocks: the KOSPI page, then the KOSDAQ
\* page; an exception at either request returns what was collected so far
NaverAllOutcomes ==
    {[failed |-> "kospi", kospi |-> <<>>, kosdaq |-> <<>>]}
        \cup {[failed |-> "kosdaq", kospi |-> k, kosdaq |-> <<>>] : k \in Lists(PortalRows)}
        \cup {o \in {[failed |-> "no", kospi |-> k, kosdaq |-> q] :
                        k \in Lists(PortalRows), q \in Lists(PortalRows)} :
                Len(o.kospi) + Len(o.kosdaq) <= Min(MaxRecs, Budget)}

NaverAllStocks(out) ==
    Relabel(SelectSeq(out.kospi, KeptAllStocksRow), "KOSPI")
        \o Relabel(SelectSeq(out.kosdaq, KeptAllStocksRow), "KOSDAQ")

NaverAllStepKR ==
    /\ prog = CompKR
    /\ pc = "naver_all"
    /\ \E out \in NaverAllOutcomes :
        LET naver_all_stocks == NaverAllStocks(out)
            new_stocks == NewStocks(naver_all_stocks, SymbolsOf(all_stocks))
        IN  /\ all_stocks' = all_stocks \o new_stocks
            /\ sources_used' =
                 IF new_stocks # <<>>
                 THEN Append(sources_used, Used("Naver Finance All Stocks", Len(new_stocks)))
                 ELSE sources_used
            /\ trace' = Append(trace, Step("naver_all", out.failed = "no", naver_all_stocks))
    /\ pc' = "naver_etf"
    /\ UNCHANGED <<prog, max_retries, attempt, retry, fdr_success, existing_codes,
                   final_stocks, result, locals>>

\* get_stock_listing_from_naver: [] on any exception
NaverEtfOutcomes ==
    {[failed |-> TRUE, rows |-> <<>>]}
        \cup {[failed |-> FALSE, rows |-> r] : r \in Lists(PortalRows)}

NaverEtfList(out) == Relabel(SelectSeq(out.rows, KeptEtfRow), "ETF")

NaverEtfStepKR ==
    /\ prog = CompKR
    /\ pc = "naver_etf"
    /\ \E out \in NaverEtfOutcomes :
        LET naver_etf_list == NaverEtfList(out)
            new_etfs == NewStocks(naver_etf_list, SymbolsOf(all_stocks))
        IN  /\ all_stocks' = all_stocks \o new_etfs
            /\ sources_used' =
                 IF new_etfs # <<>>
                 THEN Append(sources_used, Used("Naver Finance", Len(new_etfs)))
                 ELSE sources_used
            /\ trace' = Append(trace, Step("naver_etf", ~out.failed, naver_etf_list))
    /\ pc' = "overlay"
    /\ UNCHANGED <<prog, max_retries, attempt, retry, fdr_success, existing_codes,
                   final_stocks, result, locals>>

\* the hardcoded overlay list of get_comprehensive_stock_listing
manual_stocks == <<Rec(K0644, NameLG, "KOSPI")>>

NameLGC == <<"L", "G", "C">>

\* get_stock_by_ticker(ticker): None, or the name and market the page shows
TickerLookups(ticker) ==
    {[found |-> FALSE, info |-> Rec(ticker, Empty, "KRX")]}
        \cup {[found |-> TRUE, info |-> Rec(ticker, n, m)] :
                n \in {NameLG, NameLGC}, m \in {"KOSPI", "KRX"}}

\* an overlay that adds its entry whether or not the key is already there
KeyIsNewAlways(key, existing) == TRUE

\* the overlay's test: the entry is added only when its key is not yet known
KeyIsNew(key, existing) == key \notin existing

\* the local ticker_info: empty for None, else the one record returned
TickerInfo(lookup) == IF lookup.found THEN <<lookup.info>> ELSE <<>>

\* an overlay that ignores the lookup and appends the hardcoded entry
OverlayRecordHardcoded(manual_stock, lookup) == manual_stock

\* the record the overlay appends for manual_stock when its Symbol is new
OverlayRecord(manual_stock, lookup) ==
    IF lookup.found THEN lookup.info ELSE manual_stock

\* step 6: the loop over manual_stocks (one entry)
ManualOverlayKR ==
    /\ prog = CompKR
    /\ pc = "overlay"
    /\ LET manual_stock == manual_stocks[1]
       IN  IF KeyIsNew(manual_stock.Symbol, SymbolsOf(all_stocks))
           THEN \E lookup \in TickerLookups(manual_stock.Symbol) :
                   /\ all_stocks' = Append(all_stocks, OverlayRecord(manual_stock, lookup))
                   /\ trace' = Append(trace, Step("manual_overlay", lookup.found,
                                                  <<OverlayRecord(manual_stock, lookup)>>))
                   /\ locals' = [locals EXCEPT !.ticker_info = TickerInfo(lookup)]
           ELSE /\ UNCHANGED <<all_stocks, locals>>
                /\ trace' = Append(trace, Step("manual_overlay", TRUE, <<>>))
    /\ pc' = "dedup"
    /\ UNCHANGED <<prog, max_retries, attempt, retry, fdr_success, existing_codes,
                   sources_used, final_stocks, result>>

\* the final count is printed and the result dict returned
EmitStatsKR ==
    /\ prog = CompKR
    /\ pc = "stats"
    /\ result' = [success |-> TRUE, count |-> Len(final_stocks), source |-> "comprehensive"]
    /\ pc' = "done"
    /\ UNCHANGED <<prog, max_retries, attempt, retry, fdr_success, all_stocks,
                   existing_codes, sources_used, final_stocks, trace, locals>>

\* --------------------------------- get_comprehensive_us_stock_listing (US)
CompUS == "get_comprehensive_us_stock_listing"

TickerB == <<"B">>

\* rows of a US exchange listing or items of the GitHub ticker file
USRows ==
    { Rec(AAPL, NameA, "row"), Rec(aapl, NameAB, "row"), Rec(AAPLPad, NameABC, "row"),
      Rec(TickerB, Blank, "row"), Rec(Empty, NameA, "row") }

\* fdr.StockListing(exchange) for NASDAQ, NYSE, AMEX: each raises or returns rows
ExchangeOutcomes ==
    {o \in [NASDAQ : {[failed |-> TRUE, rows |-> <<>>]}
                        \cup {[failed |-> FALSE, rows |-> r] : r \in Lists(USRows)},
            NYSE : {[failed |-> TRUE, rows |-> <<>>]}
                        \cup {[failed |-> FALSE, rows |-> r] : r \in Lists(USRows)},
            AMEX : {[failed |-> TRUE, rows |-> <<>>]}
                        \cup {[failed |-> FALSE, rows |-> r] : r \in Lists(USRows)}] :
        Len(o.NASDAQ.rows) + Len(o.NYSE.rows) + Len(o.AMEX.rows) <= Min(MaxRecs, Budget)}

\* get_us_stocks_from_financedatareader: a failing exchange is skipped
UsStocksFromFdr(o) ==
    Relabel(o.NASDAQ.rows, "NASDAQ") \o Relabel(o.NYSE.rows, "NYSE")
        \o Relabel(o.AMEX.rows, "AMEX")

FdrStepUS ==
    /\ prog = CompUS
    /\ pc = "us_fdr"
    /\ \E o \in ExchangeOutcomes :
        LET fdr_stocks == UsStocksFromFdr(o)
        IN  /\ all_stocks' = all_stocks \o fdr_stocks
            /\ sources_used' =
                 IF fdr_stocks # <<>>
                 THEN Append(sources_used, Used("FinanceDataReader", Len(fdr_stocks)))
                 ELSE sources_used
            /\ trace' = Append(trace,
                   Step("us_fdr", ~(o.NASDAQ.failed /\ o.NYSE.failed /\ o.AMEX.failed),
                        fdr_stocks))
    /\ pc' = "us_github"
    /\ UNCHANGED <<prog, max_retries, attempt, retry, fdr_success, existing_codes,
                   final_stocks, result, locals>>

\* get_us_stocks_from_github: [] on any exception, else the items that have
\* both a symbol and a name
UsGithubOutcomes ==
    {[failed |-> TRUE, items |-> <<>>]}
        \cup {[failed |-> FALSE, items |-> r] : r \in Lists(USRows)}

UsStocksFromGithub(out) ==
    Relabel(SelectSeq(out.items, LAMBDA it : Truthy(it.Symbol) /\ Truthy(it.Name)), "US")

GithubStepUS ==
    /\ prog = CompUS
    /\ pc = "us_github"
    /\ \E out \in UsGithubOutcomes :
        LET github_stocks == UsStocksFromGithub(out)
        IN  /\ all_stocks' = all_stocks \o github_stocks
            /\ sources_used' =
                 IF github_stocks # <<>>
                 THEN Append(sources_used, Used("GitHub", Len(github_stocks)))
                 ELSE sources_used
            /\ trace' = Append(trace, Step("us_github", ~out.failed, github_stocks))
    /\ pc' = "dedup"
    /\ UNCHANGED <<prog, max_retries, attempt, retry, fdr_success, existing_codes,
                   final_stocks, result, locals>>

\* ------------------------------------ generate_symbols_json.get_korea_stocks
GenKR == "get_korea_stocks"

GRec(code, name, market) == [code |-> code, name |-> name, market |-> market, country |-> "KR"]

\* a ceiling that lets one more page through
max_pages_plus_one == 50 + 1

\* safety ceilings of the two page loops
max_pages == 50

max_pages_etf == 20

\* {'code','name',...} built from a link: href code and get_text(strip=True)
PageLinks ==
    { Rec(K5930, NameABC, "row"), Rec(K5Digit, NameA, "row"),
      Rec(K0644, NameAB, "row"), Rec(K5930, Empty, "row") }

\* one page request: it raises, or the page has no table, or it has rows
\* and perhaps a next-page link (td.pgRR)
PageOutcomes ==
    {[kind |-> k, rows |-> <<>>, pgRR |-> FALSE] : k \in {"exc", "notable"}}
        \cup {[kind |-> "rows", rows |-> r, pgRR |-> n] : r \in Lists(PageLinks), n \in BOOLEAN}

\* the row loop of fetch_market_stocks: [stocks, codes, found]
RECURSIVE MarketRows(_, _, _)
MarketRows(rows, acc, market_name) ==
    IF rows = <<>> THEN acc
    ELSE LET code == Head(rows).Symbol
             name == Head(rows).Name
         IN  IF Truthy(code) /\ IsKRCode(code) /\ code \notin acc.codes
             THEN MarketRows(Tail(rows),
                             [stocks |-> Append(acc.stocks, GRec(code, name, market_name)),
                              codes |-> acc.codes \cup {code},
                              found |-> acc.found + 1],
                             market_name)
             ELSE MarketRows(Tail(rows), acc, market_name)

\* the row loop of get_korea_etf_from_naver: the name must be non-empty too
RECURSIVE EtfRows(_, _)
EtfRows(rows, acc) ==
    IF rows = <<>> THEN acc
    ELSE LET code == Head(rows).Symbol
             name == Head(rows).Name
         IN  IF Truthy(code) /\ IsKRCode(code) /\ Truthy(name) /\ code \notin acc.codes
             THEN EtfRows(Tail(rows),
                          [stocks |-> Append(acc.stocks, GRec(code, name, "ETF")),
                           codes |-> acc.codes \cup {code},
                           found |-> acc.found + 1])
             ELSE EtfRows(Tail(rows), acc)

\* the records of an adapter of generate_symbols_json, as the trace keeps them
AsRecs(stocks) == [i \in 1..Len(stocks) |-> Rec(stocks[i].code, stocks[i].name, stocks[i].market)]

\* a merge in which the adapter's list takes the place of the collected one
MergeNewTakesOver(stocks, acc_stocks, acc_codes) ==
    [stocks |-> stocks, codes |-> {stocks[i].code : i \in 1..Len(stocks)}]

\* "for stock in ...: if code not in existing_codes: append, add"
RECURSIVE MergeNew(_, _, _)
MergeNew(stocks, acc_stocks, acc_codes) ==
    IF stocks = <<>> THEN [stocks |-> acc_stocks, codes |-> acc_codes]
    ELSE IF Head(stocks).code \notin acc_codes
         THEN MergeNew(Tail(stocks), Append(acc_stocks, Head(stocks)),
                       acc_codes \cup {Head(stocks).code})
         ELSE MergeNew(Tail(stocks), acc_stocks, acc_codes)

AfterPageLosesAll(out, acc, rows_read) ==
    IF out.kind = "exc" THEN [stocks |-> <<>>, codes |-> {}, found |-> 0] ELSE rows_read

\* "except Exception as e: print(...); break" of a page loop, then
\* "return stocks": the lists filled by the earlier pages are what is left
AfterPage(out, acc, rows_read) ==
    IF out.kind = "exc" THEN acc ELSE rows_read

\* one page of fetch_market_stocks (KOSPI, then KOSDAQ), and, when the
\* KOSDAQ loop ends, step 1 of get_korea_stocks; outcomes is what the
\* request for the page can bring
NaverPage(outcomes) ==
    /\ prog = GenKR
    /\ pc = "g_naver"
    /\ locals.page <= max_pages
    /\ \E out \in outcomes :
        LET acc == [stocks |-> locals.stocks, codes |-> locals.codes, found |-> 0]
            got == AfterPage(out, acc, MarketRows(out.rows, acc, locals.market))
            failed == locals.failed \/ out.kind = "exc"
            stop == \/ out.kind # "rows"
                    \/ got.found = 0
                    \/ ~out.pgRR
                    \/ locals.page + 1 > max_pages
            merged == MergeNew(got.stocks, all_stocks, existing_codes)
        IN  IF ~stop
            THEN /\ locals' = [locals EXCEPT !.page = @ + 1, !.stocks = got.stocks,
                                             !.codes = got.codes]
                 /\ UNCHANGED <<pc, all_stocks, existing_codes, trace>>
            ELSE IF locals.market = "KOSPI"
                 THEN /\ locals' = [NoLocals EXCEPT !.market = "KOSDAQ", !.page = 1,
                                    !.stocks = got.stocks, !.codes = got.codes,
                                    !.failed = failed]
                      /\ UNCHANGED <<pc, all_stocks, existing_codes, trace>>
                 ELSE /\ all_stocks' = merged.stocks
                      /\ existing_codes' = merged.codes
                      /\ trace' = Append(trace, Step("naver_all", ~failed, AsRecs(got.stocks)))
                      /\ locals' = NoLocals
                      /\ pc' = "g_github"
    /\ UNCHANGED <<prog, max_retries, attempt, retry, fdr_success, sources_used,
                   final_stocks, result>>

NaverPageGen == NaverPage(PageOutcomes)

\* rows of a DataFrame, validated as steps 2 and 4 of get_korea_stocks do:
\* str(...).strip() of each field, then the shape test
RECURSIVE FrameRows(_, _, _)
FrameRows(rows, acc_stocks, acc_codes) ==
    IF rows = <<>> THEN [stocks |-> acc_stocks, codes |-> acc_codes]
    ELSE LET symbol == Strip(Head(rows).Symbol)
             name == Strip(Head(rows).Name)
         IN  IF Truthy(symbol) /\ Truthy(name) /\ Len(symbol) = 6 /\ IsDigit(symbol)
                /\ symbol \notin acc_codes
             THEN FrameRows(Tail(rows),
                            Append(acc_stocks, GRec(symbol, name, Head(rows).Market)),
                            acc_codes \cup {symbol})
             ELSE FrameRows(Tail(rows), acc_stocks, acc_codes)

\* pd.read_csv / fdr.StockListing: raises, or returns rows
FrameOutcomes ==
    {[failed |-> TRUE, rows |-> <<>>]}
        \cup {[failed |-> FALSE, rows |-> r] : r \in Lists(FrameRecs)}

\* step 2: GitHub CSV
GithubCsvStepGen ==
    /\ prog = GenKR
    /\ pc = "g_github"
    /\ \E out \in FrameOutcomes :
        LET got == FrameRows(out.rows, all_stocks, existing_codes)
        IN  /\ all_stocks' = got.stocks
            /\ existing_codes' = got.codes
            /\ trace' = Append(trace, Step("github_csv", ~out.failed, out.rows))
    /\ pc' = "g_pykrx"
    /\ UNCHANGED locals
    /\ UNCHANGED <<prog, max_retries, attempt, retry, fdr_success, sources_used,
                   final_stocks, result>>

\* days tried by the pykrx step: range(7)
days_tried == 7

\* tickers of get_market_ticker_list with the name get_market_ticker_name
\* gives (Empty: no name, or the call raised)
PykrxTickers ==
    { Rec(K5930, NameAB, "KOSPI"), Rec(K5Digit, NameA, "KRX"),
      Rec(K0644, Blank, "KOSDAQ"), Rec(K5930, Empty, "KRX") }

PykrxOutcomes ==
    {[kind |-> k, tickers |-> <<>>] : k \in {"import", "exc", "empty"}}
        \cup {[kind |-> "tickers", tickers |-> t] : t \in NonEmptyLists(PykrxTickers)}

\* the ticker loop of step 3: no shape test on the ticker, bool(name) only
RECURSIVE PykrxRows(_, _, _)
PykrxRows(tickers, acc_stocks, acc_codes) ==
    IF tickers = <<>> THEN [stocks |-> acc_stocks, codes |-> acc_codes]
    ELSE LET ticker == Head(tickers).Symbol
             name == Head(tickers).Name
         IN  IF ticker \notin acc_codes /\ Truthy(name)
             THEN PykrxRows(Tail(tickers),
                            Append(acc_stocks, GRec(ticker, name, Head(tickers).Market)),
                            acc_codes \cup {ticker})
             ELSE PykrxRows(Tail(tickers), acc_stocks, acc_codes)

\* step 3: one day of the days_back loop (locals.page is days_back)
PykrxDayGen ==
    /\ prog = GenKR
    /\ pc = "g_pykrx"
    /\ locals.page < days_tried
    /\ \E out \in PykrxOutcomes :
        /\ out.kind = "import" => locals.page = 0
        /\ LET got == PykrxRows(out.tickers, all_stocks, existing_codes)
               leave == out.kind \in {"import", "tickers"} \/ locals.page + 1 >= days_tried
           IN  /\ all_stocks' = got.stocks
               /\ existing_codes' = got.codes
               /\ IF leave
                  THEN /\ pc' = "g_fdr"
                       /\ locals' = NoLocals
                       /\ trace' = Append(trace, Step("pykrx", out.kind \in {"tickers", "empty"},
                                                      out.tickers))
                  ELSE /\ locals' = [locals EXCEPT !.page = @ + 1]
                       /\ UNCHANGED <<pc, trace>>
    /\ UNCHANGED <<prog, max_retries, attempt, retry, fdr_success, sources_used,
                   final_stocks, result>>

\* step 4: fdr.StockListing('KRX'), called once
FdrStepGen ==
    /\ prog = GenKR
    /\ pc = "g_fdr"
    /\ \E out \in FrameOutcomes :
        LET got == FrameRows(out.rows, all_stocks, existing_codes)
        IN  /\ all_stocks' = got.stocks
            /\ existing_codes' = got.codes
            /\ trace' = Append(trace, Step("fdr_krx", ~out.failed, out.rows))
    /\ pc' = "g_etf"
    /\ locals' = [NoLocals EXCEPT !.market = "ETF", !.page = 1]
    /\ UNCHANGED <<prog, max_retries, attempt, retry, fdr_success, sources_used,
                   final_stocks, result>>

\* one page of get_korea_etf_from_naver
EtfPageOutcomes ==
    {[kind |-> "exc", rows |-> <<>>]}
        \cup {[kind |-> "rows", rows |-> r] : r \in Lists(PageLinks)}

\* one iteration of the page loop of get_korea_etf_from_naver
EtfPage(outcomes) ==
    /\ prog = GenKR
    /\ pc = "g_etf"
    /\ locals.market = "ETF"
    /\ locals.page <= max_pages_etf
    /\ \E out \in outcomes :
        LET acc == [stocks |-> locals.stocks, codes |-> locals.codes, found |-> 0]
            got == AfterPage(out, acc, EtfRows(out.rows, acc))
            stop == out.kind = "exc" \/ got.found = 0 \/ locals.page + 1 > max_pages_etf
        IN  locals' = [locals EXCEPT !.market = IF stop THEN "ETF/KR" ELSE "ETF",
                                     !.page = IF stop THEN @ ELSE @ + 1,
                                     !.stocks = got.stocks,
                                     !.codes = got.codes,
                                     !.failed = @ \/ out.kind = "exc"]
    /\ UNCHANGED <<prog, pc, max_retries, attempt, retry, fdr_success, all_stocks,
                   existing_codes, sources_used, final_stocks, result, trace>>

EtfPageGen == EtfPage(EtfPageOutcomes)

\* the rows of fdr.StockListing('ETF/KR') added by get_korea_etf_from_naver
RECURSIVE EtfFrameRows(_, _, _)
EtfFrameRows(rows, acc_stocks, acc_codes) ==
    IF rows = <<>> THEN [stocks |-> acc_stocks, codes |-> acc_codes]
    ELSE LET symbol == Strip(Head(rows).Symbol)
             name == Strip(Head(rows).Name)
         IN  IF Truthy(symbol) /\ Truthy(name) /\ Len(symbol) = 6 /\ IsDigit(symbol)
                /\ symbol \notin acc_codes
             THEN EtfFrameRows(Tail(rows), Append(acc_stocks, GRec(symbol, name, "ETF")),
                               acc_codes \cup {symbol})
             ELSE EtfFrameRows(Tail(rows), acc_stocks, acc_codes)

\* the ETF/KR call that ends get_korea_etf_from_naver, and step 5
EtfStepGen ==
    /\ prog = GenKR
    /\ pc = "g_etf"
    /\ locals.market = "ETF/KR"
    /\ \E out \in FrameOutcomes :
        LET etf_stocks == EtfFrameRows(out.rows, locals.stocks, locals.codes).stocks
            merged == MergeNew(etf_stocks, all_stocks, existing_codes)
        IN  /\ all_stocks' = merged.stocks
            /\ existing_codes' = merged.codes
            /\ trace' = Append(trace, Step("naver_etf", ~(locals.failed /\ out.failed),
                                           AsRecs(etf_stocks)))
    /\ pc' = "g_overlay"
    /\ locals' = NoLocals
    /\ UNCHANGED <<prog, max_retries, attempt, retry, fdr_success, sources_used,
                   final_stocks, result>>

\* the hardcoded overlay list of get_korea_stocks
manual_tickers == <<K0644>>

\* get_stock_by_ticker of generate_symbols_json.py
TickerLookupsGen(ticker) ==
    {[found |-> FALSE, info |-> GRec(ticker, Empty, "KRX")]}
        \cup {[found |-> TRUE, info |-> GRec(ticker, n, m)] :
                n \in {NameLG, NameLGC}, m \in {"KOSPI", "KRX"}}

\* step 6: the loop over manual_tickers (one entry)
ManualOverlayGen ==
    /\ prog = GenKR
    /\ pc = "g_overlay"
    /\ LET ticker == manual_tickers[1]
       IN  IF KeyIsNew(ticker, existing_codes)
           THEN \E lookup \in TickerLookupsGen(ticker) :
                   /\ all_stocks' = IF lookup.found THEN Append(all_stocks, lookup.info)
                                    ELSE all_stocks
                   /\ existing_codes' = IF lookup.found THEN existing_codes \cup {ticker}
                                        ELSE existing_codes
                   /\ trace' = Append(trace, Step("manual_overlay", lookup.found,
                                        IF lookup.found THEN AsRecs(<<lookup.info>>) ELSE <<>>))
                   /\ locals' = [locals EXCEPT !.ticker_info = TickerInfo(lookup)]
           ELSE /\ UNCHANGED <<all_stocks, existing_codes, locals>>
                /\ trace' = Append(trace, Step("manual_overlay", TRUE, <<>>))
    /\ pc' = "g_stats"
    /\ UNCHANGED <<prog, max_retries, attempt, retry, fdr_success, sources_used,
                   final_stocks, result>>

\* the market statistics are printed and all_stocks returned
EmitStatsGen ==
    /\ prog = GenKR
    /\ pc = "g_stats"
    /\ final_stocks' = all_stocks
    /\ pc' = "done"
    /\ UNCHANGED <<prog, max_retries, attempt, retry, fdr_success, all_stocks,
                   existing_codes, sources_used, result, trace, locals>>

\* --------------------------------------- generate_symbols_json.get_us_stocks
GenUS == "get_us_stocks"

URec(code, name, market, type) ==
    [code |-> code, name |-> name, market |-> market, country |-> "US", type |-> type]

\* items of the Finnhub / FMP JSON list; Market holds the item's exchange.
\* A null symbol makes item.get('symbol', '').strip() raise AttributeError
ApiItems ==
    { Rec(aapl, NameA, "NASDAQ"), Rec(AAPLPad, NameAB, "NASDAQ Global Select"),
      Rec(TickerB, NameABC, "LSE"), Rec(TickerB, Blank, "NYSE"), Rec(NoneVal, NameA, "NYSE") }

\* the environment variables get_us_stocks reads; locals.env holds those
\* that are set to a non-empty value
EnvNames == {"FINNHUB_API_KEY", "NEXT_PUBLIC_FINNHUB_API_KEY", "FMP_API_KEY"}

\* a Finnhub block that takes the key for granted
FinnhubKeyAssumed(env) == TRUE

\* os.environ.get('FINNHUB_API_KEY') or os.environ.get('NEXT_PUBLIC_FINNHUB_API_KEY')
FinnhubKey(env) == "FINNHUB_API_KEY" \in env \/ "NEXT_PUBLIC_FINNHUB_API_KEY" \in env

\* os.environ.get('FMP_API_KEY')
FmpKey(env) == "FMP_API_KEY" \in env

\* "if key:" then the request raises, or the status is not 200, or a list
\* comes; "else:" the block is skipped
ApiOutcomes(key) ==
    IF key
    THEN {[kind |-> k, items |-> <<>>] : k \in {"exc", "status"}}
            \cup {[kind |-> "list", items |-> i] : i \in Lists(ApiItems)}
    ELSE {[kind |-> "nokey", items |-> <<>>]}

\* the sources a request was sent to, after a block with this outcome
Requested(source, out) ==
    IF out.kind = "nokey" THEN locals.requested ELSE locals.requested \cup {source}

us_exchanges == {"NYSE", "NASDAQ", "AMEX", "NYSE ARCA", "NYSE MKT", "BATS", "OTC"}

\* exchange in us_exchanges or any(ex in exchange for ex in us_exchanges)
IsUSExchange(exchange) == exchange \in us_exchanges \cup {"NASDAQ Global Select"}

\* the item loop of the Finnhub block; raised: the loop was left by an exception
RECURSIVE FinnhubItems(_, _)
FinnhubItems(items, acc) ==
    IF items = <<>> THEN acc
    ELSE IF Head(items).Symbol = NoneVal
         THEN [acc EXCEPT !.raised = TRUE]
         ELSE LET symbol == Strip(Head(items).Symbol)
                  name == Strip(Head(items).Name)
              IN  IF Truthy(symbol) /\ Truthy(name) /\ symbol \notin acc.codes
                  THEN FinnhubItems(Tail(items),
                           [acc EXCEPT !.stocks = Append(@, URec(symbol, name, "US", "")),
                                       !.codes = @ \cup {symbol}])
                  ELSE FinnhubItems(Tail(items), acc)

\* an FMP block that starts over from an empty list, losing what came before
FmpItemsStartsOver(items, acc) == [stocks |-> <<>>, codes |-> {}, raised |-> items # <<>>]

\* the item loop of the FMP block
RECURSIVE FmpItems(_, _)
FmpItems(items, acc) ==
    IF items = <<>> THEN acc
    ELSE IF Head(items).Symbol = NoneVal
         THEN [acc EXCEPT !.raised = TRUE]
         ELSE LET symbol == Strip(Head(items).Symbol)
                  name == Strip(Head(items).Name)
                  exchange == Head(items).Market
              IN  IF Truthy(symbol) /\ Truthy(name) /\ symbol \notin acc.codes
                     /\ IsUSExchange(exchange)
                  THEN FmpItems(Tail(items),
                           [acc EXCEPT !.stocks = Append(@, URec(symbol, name, exchange, "")),
                                       !.codes = @ \cup {symbol}])
                  ELSE FmpItems(Tail(items), acc)

Acc == [stocks |-> all_stocks, codes |-> existing_codes, raised |-> FALSE]

\* block 1: Finnhub
FinnhubStepGen ==
    /\ prog = GenUS
    /\ pc = "u_finnhub"
    /\ \E out \in ApiOutcomes(FinnhubKey(locals.env)) :
        LET got == FinnhubItems(out.items, Acc)
        IN  /\ all_stocks' = got.stocks
            /\ existing_codes' = got.codes
            /\ trace' = Append(trace, Step("finnhub",
                                           IF out.kind = "list" THEN ~got.raised
                                           ELSE out.kind = "nokey",
                                           out.items))
            /\ locals' = [locals EXCEPT !.requested = Requested("finnhub", out)]
    /\ pc' = "u_fmp"
    /\ UNCHANGED <<prog, max_retries, attempt, retry, fdr_success, sources_used,
                   final_stocks, result>>

\* block 2: FMP
FmpStepGen ==
    /\ prog = GenUS
    /\ pc = "u_fmp"
    /\ \E out \in ApiOutcomes(FmpKey(locals.env)) :
        LET got == FmpItems(out.items, Acc)
        IN  /\ all_stocks' = got.stocks
            /\ existing_codes' = got.codes
            /\ trace' = Append(trace, Step("fmp",
                                           IF out.kind = "list" THEN ~got.raised
                                           ELSE out.kind = "nokey",
                                           out.items))
            /\ locals' = [locals EXCEPT !.page = 1, !.requested = Requested("fmp", out)]
    /\ pc' = "u_github"
    /\ UNCHANGED <<prog, max_retries, attempt, retry, fdr_success, sources_used,
                   final_stocks, result>>

github_sources == <<"NASDAQ", "NYSE", "AMEX">>

\* lines of a ticker file
TickerLines == {AAPL, aapl, AAPLPad, Blank}

TickerFileOutcomes ==
    {[kind |-> k, lines |-> <<>>] : k \in {"exc", "status"}}
        \cup {[kind |-> "text", lines |-> l] : l \in Lists(TickerLines)}

\* the line loop of one ticker file
RECURSIVE TickerFileLines(_, _, _)
TickerFileLines(lines, acc, exchange_name) ==
    IF lines = <<>> THEN acc
    ELSE LET ticker == Strip(Head(lines))
         IN  IF Truthy(ticker) /\ ticker \notin acc.codes
             THEN TickerFileLines(Tail(lines),
                      [acc EXCEPT !.stocks = Append(@, URec(ticker, ticker, exchange_name,
                                                            "Common Stock")),
                                  !.codes = @ \cup {ticker}],
                      exchange_name)
             ELSE TickerFileLines(Tail(lines), acc, exchange_name)

AsRows(lines) == [i \in 1..Len(lines) |-> Rec(lines[i], lines[i], "line")]

\* block 3: one iteration of the loop over github_sources (locals.page is the index)
GithubTickersGen ==
    /\ prog = GenUS
    /\ pc = "u_github"
    /\ locals.page <= Len(github_sources)
    /\ \E out \in TickerFileOutcomes :
        LET got == TickerFileLines(out.lines, Acc, github_sources[locals.page])
        IN  /\ all_stocks' = got.stocks
            /\ existing_codes' = got.codes
            /\ trace' = Append(trace, Step(github_sources[locals.page], out.kind = "text",
                                           AsRows(out.lines)))
    /\ IF locals.page < Len(github_sources)
       THEN /\ locals' = [locals EXCEPT !.page = @ + 1]
            /\ UNCHANGED pc
       ELSE /\ locals' = [locals EXCEPT !.page = 0]
            /\ pc' = "u_stats"
    /\ UNCHANGED <<prog, max_retries, attempt, retry, fdr_success, sources_used,
                   final_stocks, result>>

\* the market statistics are printed and all_stocks returned
EmitStatsUS ==
    /\ prog = GenUS
    /\ pc = "u_stats"
    /\ final_stocks' = all_stocks
    /\ pc' = "done"
    /\ UNCHANGED <<prog, max_retries, attempt, retry, fdr_success, all_stocks,
                   existing_codes, sources_used, result, trace, locals>>

\* --------------------------------------- get_stock_listing.get_stock_listing
Listing == "get_stock_listing"

\* a handler that keeps the first error it saw
FirstError(prev, kind) == IF prev = <<>> THEN <<kind, attempt + 1>> ELSE prev

\* "last_error = ..." in both handlers: the message of this attempt's
\* exception (its kind and the attempt that raised it) replaces the previous one
LastError(prev, kind) == <<kind, attempt + 1>>

\* one iteration of the retry loop: sleep, call fdr.StockListing('KRX'),
\* return the rows or handle the exception.  An empty frame raises ValueError
\* inside the try and so is handled like any other exception.  When the loop
\* is exhausted the GitHub CSV fallback follows
ListingAttempt ==
    /\ prog = Listing
    /\ pc = "l_fdr"
    /\ attempt < max_retries
    /\ \E out \in FdrOutcomes :
        /\ retry' = [retry EXCEPT !["KRX"] = AttemptLog(@, out.kind)]
        /\ IF out.kind = "ok"
           THEN /\ result' = [success |-> TRUE, count |-> Len(out.data),
                              source |-> "fdr_stocklisting"]
                /\ final_stocks' = out.data
                /\ trace' = Append(trace, Step("fdr_krx", TRUE, out.data))
                /\ pc' = "done"
                /\ UNCHANGED <<attempt, locals>>
           ELSE /\ locals' = [locals EXCEPT !.last_error = LastError(@, out.kind)]
                /\ UNCHANGED <<result, final_stocks>>
                /\ IF out.kind = "json"
                   THEN \* continue
                        IF LoopContinues
                        THEN /\ attempt' = attempt + 1
                             /\ UNCHANGED <<pc, trace>>
                        ELSE /\ pc' = "l_github"
                             /\ trace' = Append(trace, Step("fdr_krx", FALSE, <<>>))
                             /\ UNCHANGED attempt
                   ELSE IF attempt < max_retries - 1
                        THEN /\ attempt' = attempt + 1
                             /\ UNCHANGED <<pc, trace>>
                        ELSE \* break
                             /\ pc' = "l_github"
                             /\ trace' = Append(trace, Step("fdr_krx", FALSE, <<>>))
                             /\ UNCHANGED attempt
    /\ UNCHANGED <<prog, max_retries, fdr_success, all_stocks, existing_codes, sources_used>>

\* a fallback whose result names the primary source
FallbackResultMislabelled(github_result) ==
    [success |-> TRUE, count |-> Len(github_result.data), source |-> "fdr_stocklisting"]

\* what get_stock_listing returns after the loop: the fallback's own result
\* dict when it succeeded, else the failure dict with last_error
FallbackResult(github_result) ==
    IF github_result.success
    THEN [success |-> TRUE, count |-> Len(github_result.data), source |-> "github_csv"]
    ELSE [success |-> FALSE, count |-> 0, source |-> "none", error |-> locals.last_error]

\* the fallback and the final return
ListingFallback ==
    /\ prog = Listing
    /\ pc = "l_github"
    /\ \E github_result \in GithubOutcomes :
        /\ trace' = Append(trace, Step("github_csv", github_result.success,
                                       github_result.data))
        /\ result' = FallbackResult(github_result)
        /\ final_stocks' = IF github_result.success THEN github_result.data
                           ELSE final_stocks
    /\ pc' = "done"
    /\ UNCHANGED <<prog, max_retries, attempt, retry, fdr_success, all_stocks,
                   existing_codes, sources_used, locals>>

\* ------------------------------------------------------------ dedup stage
\* dict lookup in unique_stocks, kept as a list of <<key, record>> in
\* insertion order (a Python dict keeps insertion order)
KeyIndex(uniq, key) ==
    IF \E i \in 1..Len(uniq) : uniq[i][1] = key
    THEN CHOOSE i \in 1..Len(uniq) : uniq[i][1] = key
    ELSE 0

\* the skip test of get_comprehensive_stock_listing
SkippedKR(stock) ==
    \/ ~Truthy(stock.Symbol)
    \/ ~Truthy(stock.Name)
    \/ Strip(stock.Symbol) = <<>>
    \/ Strip(stock.Name) = <<>>

\* the skip test of get_comprehensive_us_stock_listing
SkippedUS(stock) == ~Truthy(stock.Symbol) \/ ~Truthy(stock.Name)

KeyKR(stock) == Strip(stock.Symbol)

KeyUS(stock) == Upper(Strip(stock.Symbol))

\* one iteration of the dedup loop on record stock: insert, replace or keep
DedupOne(uniq, key, stock) ==
    LET i == KeyIndex(uniq, key)
        name == Strip(stock.Name)
    IN  IF i = 0
        THEN Append(uniq, <<key, stock>>)
        ELSE IF Len(name) > Len(uniq[i][2].Name)
             THEN [uniq EXCEPT ![i] = <<key, stock>>]
             ELSE uniq

RECURSIVE DedupLoopKR(_, _)
DedupLoopKR(stocks, uniq) ==
    IF stocks = <<>> THEN uniq
    ELSE IF SkippedKR(Head(stocks))
         THEN DedupLoopKR(Tail(stocks), uniq)
         ELSE DedupLoopKR(Tail(stocks), DedupOne(uniq, KeyKR(Head(stocks)), Head(stocks)))

RECURSIVE DedupLoopUS(_, _)
DedupLoopUS(stocks, uniq) ==
    IF stocks = <<>> THEN uniq
    ELSE IF SkippedUS(Head(stocks))
         THEN DedupLoopUS(Tail(stocks), uniq)
         ELSE DedupLoopUS(Tail(stocks), DedupOne(uniq, KeyUS(Head(stocks)), Head(stocks)))

\* list(unique_stocks.values())
Values(uniq) == [i \in 1..Len(uniq) |-> uniq[i][2]]

DedupKR(stocks) == Values(DedupLoopKR(stocks, <<>>))

DedupUS(stocks) == Values(DedupLoopUS(stocks, <<>>))

\* raw records the dedup stage can be handed
DedupInputs ==
    { Rec(K5930, NameA, "KOSPI"), Rec(K5930, NameAB, "KRX"),
      Rec(K5930, NameAPad, "KOSPI"), Rec(K5930, NameABPad, "KRX"),
      Rec(K5930Pad, NameABC, "KOSDAQ"), Rec(K5930, Blank, "KOSPI"),
      Rec(Empty, NameA, "KOSPI"),
      Rec(aapl, NameA, "US"), Rec(AAPL, NameAB, "NASDAQ") }

\* a last stage that returns the accumulated list as it is
DedupStageLeftOut ==
    /\ prog = CompKR
    /\ pc = "dedup"
    /\ final_stocks' = all_stocks
    /\ pc' = "stats"
    /\ UNCHANGED <<prog, max_retries, attempt, retry, fdr_success, all_stocks,
                   existing_codes, sources_used, result, trace, locals>>

DedupStageKR ==
    /\ prog = CompKR
    /\ pc = "dedup"
    /\ final_stocks' = DedupKR(all_stocks)
    /\ pc' = "stats"
    /\ UNCHANGED <<prog, max_retries, attempt, retry, fdr_success, all_stocks,
                   existing_codes, sources_used, result, trace, locals>>

DedupStageUS ==
    /\ prog = CompUS
    /\ pc = "dedup"
    /\ final_stocks' = DedupUS(all_stocks)
    /\ result' = [success |-> TRUE, count |-> Len(DedupUS(all_stocks)),
                  source |-> "comprehensive"]
    /\ pc' = "done"
    /\ UNCHANGED <<prog, max_retries, attempt, retry, fdr_success, all_stocks,
                   existing_codes, sources_used, trace, locals>>

InitDedup ==
    /\ prog \in {CompKR, CompUS}
    /\ pc = "dedup"
    /\ all_stocks \in BoundedSeq(DedupInputs, MaxLen)
    /\ final_stocks = <<>>
    /\ max_retries = MaxRetries
    /\ attempt = 0
    /\ retry = NoRetries
    /\ fdr_success = FALSE
    /\ existing_codes = {}
    /\ sources_used = <<>>
    /\ result = NoResult
    /\ trace = <<>>
    /\ locals = NoLocals

NextDedup == DedupStageKR \/ DedupStageUS

SpecDedup == InitDedup /\ [][NextDedup]_vars

\* ------------------------------------------- the page loops, run to the end
\* str(n) of a page number below 100, zero-filled
DigitChars == <<"0", "1", "2", "3", "4", "5", "6", "7", "8", "9">>

\* the code of the one listing shown on page `page` of a market's table
PageCode(market_digit, page) ==
    <<market_digit, "0", "0", "0", DigitChars[(page \div 10) + 1], DigitChars[(page % 10) + 1]>>

MarketDigit(market_name) ==
    CASE market_name = "KOSPI" -> "0" [] market_name = "KOSDAQ" -> "1" [] OTHER -> "2"

\* the rows a page of a long table can show: none, a listing not seen on
\* an earlier page, or the listing of page 1 again
FullPageRows(market_name, page) ==
    { <<>>,
      <<Rec(PageCode(MarketDigit(market_name), page), NameA, "row")>>,
      <<Rec(PageCode(MarketDigit(market_name), 1), NameA, "row")>> }

\* a page request against a table as long as the site serves
FullPageOutcomes(market_name, page) ==
    {[kind |-> k, rows |-> <<>>, pgRR |-> FALSE] : k \in {"exc", "notable"}}
        \cup {[kind |-> "rows", rows |-> r, pgRR |-> n] :
                 r \in FullPageRows(market_name, page), n \in BOOLEAN}

NaverPageFull == NaverPage(FullPageOutcomes(locals.market, locals.page))

EtfPageFull == EtfPage(FullPageOutcomes(locals.market, locals.page))

\* what steps 1 to 4 of get_korea_stocks leave when each of them failed
EarlierStepsFailed ==
    <<Step("naver_all", FALSE, <<>>), Step("github_csv", FALSE, <<>>),
      Step("pykrx", FALSE, <<>>), Step("fdr_krx", FALSE, <<>>)>>

\* get_korea_stocks at its first step, or at step 5 when the earlier steps
\* brought nothing
InitPages ==
    /\ prog = GenKR
    /\ pc \in {"g_naver", "g_etf"}
    /\ max_retries = MaxRetries
    /\ attempt = 0
    /\ retry = NoRetries
    /\ fdr_success = FALSE
    /\ all_stocks = <<>>
    /\ existing_codes = {}
    /\ sources_used = <<>>
    /\ final_stocks = <<>>
    /\ result = NoResult
    /\ trace = (IF pc = "g_naver" THEN <<>> ELSE EarlierStepsFailed)
    /\ locals = [NoLocals EXCEPT !.market = IF pc = "g_naver" THEN "KOSPI" ELSE "ETF",
                                 !.page = 1]

NextPages == NaverPageFull \/ EtfPageFull

SpecPages == InitPages /\ [][NextPages]_vars

\* ------------------------------------------------- name-to-code lookups
Search == "search_stock_by_name"

NaverSearch == "get_stock_listing_from_naver_search"

NameASpB == <<"a", " ", "b">>

\* the company marks a listed name can carry, each as one character
CompanyMarks == {"%"}

\* stock_name.replace(' ', '').replace('\t', '').replace('\n', '')
NormalizedSearch(stock_name) == SelectSeq(stock_name, LAMBDA c : c \notin Whitespace)

\* the same, and the company marks removed
NormalizedName(name) == SelectSeq(name, LAMBDA c : c \notin Whitespace \cup CompanyMarks)

\* Python's "sub in s" for str
Contains(sub, s) == \E i \in 1..(Len(s) - Len(sub) + 1) : SubSeq(s, i, i + Len(sub) - 1) = sub

\* the queries: a name, and a six-digit code
Queries == {NameAB, K5930}

\* an item link of a result table: its code, its text, and the kind of cell
\* it sits in; the k-th link of a page carries the k-th code
LinkTexts == {NameASpB, NameABC, NameLG}

\* a link sits in a td cell; one with the first text can sit in a th cell
LinkKinds == (LinkTexts \X {"td"}) \cup {<<NameASpB, "th">>}

\* the links of a page, from the text and the cell chosen for each
LinksOf(c) == [i \in DOMAIN c |-> Rec(PageCode("0", i), c[i][1], c[i][2])]

\* what a request for a page does: it raises, or the page has these links
\* and this company name in its h2 (NoneVal: no such h2)
PageOf(kind, links, h2) == [kind |-> kind, links |-> links, h2 |-> h2]

NoPage == PageOf("exc", <<>>, NoneVal)

\* any(r['Symbol'] == code for r in results)
InResults(code, results) == \E i \in 1..Len(results) : results[i].Symbol = code

\* elements[:30]
First30(elements) == SubSeq(elements, 1, Min(30, Len(elements)))

\* the elements of a selector of method 1, each with the link found in it:
\* every link for 'a', the links of the td cells for 'td', and for 'div' the
\* first link of the page (the div that wraps the table)
ElementsOf(selector_type, links) ==
    CASE selector_type = "a" -> links
      [] selector_type = "td" -> SelectSeq(links, LAMBDA l : l.Market = "td")
      [] selector_type = "div" -> SubSeq(links, 1, Min(1, Len(links)))

\* "for element in elements[:30]" of method 1, with its two breaks
RECURSIVE ScanElements(_, _, _)
ScanElements(elements, results, stock_name) ==
    IF elements = <<>> THEN results
    ELSE LET code == Head(elements).Symbol
             name == Head(elements).Name
             found == Rec(code, name, "KRX")
         IN  IF Truthy(code) /\ IsKRCode(code) /\ Truthy(name) /\ ~InResults(code, results)
             THEN IF NormalizedSearch(stock_name) = NormalizedName(name)
                  THEN <<found>> \o results
                  ELSE IF Contains(NormalizedSearch(stock_name), NormalizedName(name))
                       THEN IF Len(results) + 1 >= 5
                            THEN Append(results, found)
                            ELSE ScanElements(Tail(elements), Append(results, found), stock_name)
                       ELSE ScanElements(Tail(elements), results, stock_name)
             ELSE ScanElements(Tail(elements), results, stock_name)

\* method 1: "for selector_type, selector_func in selectors"
RECURSIVE LinkSearch(_, _, _, _)
LinkSearch(selectors, links, results, stock_name) ==
    IF selectors = <<>> THEN results
    ELSE LET after == ScanElements(First30(ElementsOf(Head(selectors), links)),
                                   results, stock_name)
         IN  IF Len(after) >= 5 THEN after
             ELSE LinkSearch(Tail(selectors), links, after, stock_name)

\* method 2: every link of every table cell
RECURSIVE TableSearch(_, _)
TableSearch(links, results) ==
    IF links = <<>> THEN results
    ELSE LET code == Head(links).Symbol
         IN  IF Truthy(code) /\ IsKRCode(code) /\ ~InResults(code, results)
             THEN TableSearch(Tail(links),
                              Append(results, Rec(code, Head(links).Name, "KRX")))
             ELSE TableSearch(Tail(links), results)

\* method 3: the company name of a detail page, for the URL built from the query
DetailSearch(is_detail_url, page, results, stock_name) ==
    IF /\ is_detail_url
       /\ IsKRCode(stock_name)
       /\ Truthy(page.h2)
       /\ ~InResults(stock_name, results)
    THEN Append(results, Rec(stock_name, page.h2, "KRX"))
    ELSE results

\* the body of "for search_url in search_urls" for one page
PageResults(is_detail_url, page, results, stock_name) ==
    DetailSearch(is_detail_url, page,
                 TableSearch(page.links,
                             LinkSearch(<<"a", "td", "div">>, page.links, results, stock_name)),
                 stock_name)

\* the return of search_stock_by_name
SearchReturn(results) ==
    /\ final_stocks' = results
    /\ result' = [success |-> TRUE, count |-> Len(results), source |-> "naver"]
    /\ pc' = "done"

\* lines 20-46: a six-digit query is looked up as a code first
SearchByCode ==
    /\ prog = Search
    /\ pc = "s_code"
    /\ IF IsKRCode(locals.stock_name)
       THEN \E page \in {NoPage} \cup {PageOf("page", <<>>, n) : n \in {NoneVal, Empty, NameA}} :
              /\ trace' = Append(trace, Step("code_page", page.kind # "exc", <<>>))
              /\ IF page.kind = "page" /\ Truthy(page.h2)
                 THEN SearchReturn(<<Rec(locals.stock_name, page.h2, "KRX")>>)
                 ELSE /\ pc' = "s_url1"
                      /\ UNCHANGED <<final_stocks, result>>
       ELSE /\ pc' = "s_url1"
            /\ UNCHANGED <<final_stocks, result, trace>>
    /\ UNCHANGED <<prog, max_retries, attempt, retry, fdr_success, all_stocks,
                   existing_codes, sources_used, locals>>

\* one iteration of "for search_url in search_urls", and the return when it
\* was the last
SearchUrl(label, next, is_detail_url, max_links, names) ==
    /\ prog = Search
    /\ pc = label
    /\ \E page \in {NoPage} \cup
                    { PageOf("page", LinksOf(c), n) :
                        c \in UNION {[1..k -> LinkKinds] : k \in 0..max_links}, n \in names } :
        LET results == IF page.kind = "exc" THEN <<>>
                       ELSE PageResults(is_detail_url, page, <<>>, locals.stock_name)
        IN  /\ trace' = Append(trace, Step(label, page.kind # "exc", page.links))
            /\ IF results # <<>> \/ next = "done"
               THEN SearchReturn(results)
               ELSE /\ pc' = next
                    /\ UNCHANGED <<final_stocks, result>>
    /\ UNCHANGED <<prog, max_retries, attempt, retry, fdr_success, all_stocks,
                   existing_codes, sources_used, locals>>

SearchListUrl == SearchUrl("s_url1", "s_url2", FALSE, MaxLinks, {NoneVal})

SearchDetailUrl == SearchUrl("s_url2", "done", TRUE, 1, {NoneVal, NameA})

\* what the search API request of get_stock_listing_from_naver_search brings:
\* it raises, or a JSON body with these items, or a body that is not JSON
\* and holds these links
SearchResponses ==
    {[kind |-> "exc", links |-> <<>>]}
        \cup { [kind |-> k, links |-> LinksOf(c)] :
                 k \in {"json", "html"},
                 c \in UNION {[1..n -> LinkTexts \X {"td"}] : n \in 0..MaxLinks} }

\* "for item in data['items']": code and name trimmed, the shape test
RECURSIVE JsonItems(_, _)
JsonItems(items, results) ==
    IF items = <<>> THEN results
    ELSE LET code == Strip(Head(items).Symbol)
             name == Strip(Head(items).Name)
         IN  IF IsKRCode(code)
             THEN JsonItems(Tail(items), Append(results, Rec(code, name, "KRX")))
             ELSE JsonItems(Tail(items), results)

\* "for link in stock_links[:5]"
RECURSIVE HtmlLinks(_, _)
HtmlLinks(links, results) ==
    IF links = <<>> THEN results
    ELSE LET code == Head(links).Symbol
         IN  IF Truthy(code) /\ IsKRCode(code)
             THEN HtmlLinks(Tail(links), Append(results, Rec(code, Head(links).Name, "KRX")))
             ELSE HtmlLinks(Tail(links), results)

NaverSearchResults(response) ==
    CASE response.kind = "exc" -> <<>>
      [] response.kind = "json" -> JsonItems(response.links, <<>>)
      [] response.kind = "html" ->
            HtmlLinks(SubSeq(response.links, 1, Min(5, Len(response.links))), <<>>)

\* get_stock_listing_from_naver_search(stock_name)
NaverSearchLookup ==
    /\ prog = NaverSearch
    /\ pc = "n_search"
    /\ \E response \in SearchResponses :
        /\ trace' = Append(trace, Step(response.kind, response.kind # "exc", response.links))
        /\ final_stocks' = NaverSearchResults(response)
    /\ pc' = "done"
    /\ UNCHANGED <<prog, max_retries, attempt, retry, fdr_success, all_stocks,
                   existing_codes, sources_used, result, locals>>

InitSearch ==
    /\ prog \in {Search, NaverSearch}
    /\ pc = (IF prog = Search THEN "s_code" ELSE "n_search")
    /\ max_retries = MaxRetries
    /\ attempt = 0
    /\ retry = NoRetries
    /\ fdr_success = FALSE
    /\ all_stocks = <<>>
    /\ existing_codes = {}
    /\ sources_used = <<>>
    /\ final_stocks = <<>>
    /\ result = NoResult
    /\ trace = <<>>
    /\ \E stock_name \in (IF prog = Search THEN Queries ELSE {NameAB}) :
            locals = [NoLocals EXCEPT !.stock_name = stock_name]

NextSearch == SearchByCode \/ SearchListUrl \/ SearchDetailUrl \/ NaverSearchLookup

SpecSearch == InitSearch /\ [][NextSearch]_vars

\* ------------------------------------------- generate_symbols_json.main
Main == "main"

\* lists get_korea_stocks can return: the values of a dict keyed by code
KoreaStocks ==
    LET recs == { GRec(c, n, "KOSPI") : c \in {K5930, K0644}, n \in {NameA, NameAB} }
    IN  { stocks \in BoundedSeq(recs, MaxRecs) :
            \A i, j \in 1..Len(stocks) : i # j => stocks[i].code # stocks[j].code }

\* lists get_us_stocks can return
UsStocks ==
    LET recs == { URec(c, n, "US", "") : c \in {AAPL, TickerB}, n \in {NameA, NameAB} }
    IN  { stocks \in BoundedSeq(recs, MaxRecs) :
            \A i, j \in 1..Len(stocks) : i # j => stocks[i].code # stocks[j].code }

\* a total that leaves the US list out
TotalKoreaOnly(korea_stocks, us_stocks) == Len(korea_stocks)

\* 'total' of all_symbols
Total(korea_stocks, us_stocks) == Len(korea_stocks) + Len(us_stocks)

\* the dict main builds (generated_at, a timestamp, is left out)
AllSymbols(korea_stocks, us_stocks) ==
    [version |-> "2.0",
     korea |-> [count |-> Len(korea_stocks), stocks |-> korea_stocks],
     us |-> [count |-> Len(us_stocks), stocks |-> us_stocks],
     total |-> Total(korea_stocks, us_stocks)]

\* the JSON object printed on stdout
Summary(korea_stocks, us_stocks, all_symbols) ==
    [success |-> TRUE, korea_count |-> Len(korea_stocks), us_count |-> Len(us_stocks),
     total_count |-> all_symbols.total, output_file |-> "symbols.json"]

\* korea_stocks = get_korea_stocks()
MainKoreaStocks ==
    /\ prog = Main
    /\ pc = "m_korea"
    /\ \E korea_stocks \in KoreaStocks :
            locals' = [locals EXCEPT !.korea_stocks = korea_stocks]
    /\ pc' = "m_us"
    /\ UNCHANGED <<prog, max_retries, attempt, retry, fdr_success, all_stocks,
                   existing_codes, sources_used, final_stocks, result, trace>>

\* us_stocks = get_us_stocks()
MainUsStocks ==
    /\ prog = Main
    /\ pc = "m_us"
    /\ \E us_stocks \in UsStocks :
            locals' = [locals EXCEPT !.us_stocks = us_stocks]
    /\ pc' = "m_build"
    /\ UNCHANGED <<prog, max_retries, attempt, retry, fdr_success, all_stocks,
                   existing_codes, sources_used, final_stocks, result, trace>>

\* all_symbols = {...}
MainAllSymbols ==
    /\ prog = Main
    /\ pc = "m_build"
    /\ result' = AllSymbols(locals.korea_stocks, locals.us_stocks)
    /\ pc' = "m_dump"
    /\ UNCHANGED <<prog, max_retries, attempt, retry, fdr_success, all_stocks,
                   existing_codes, sources_used, final_stocks, trace, locals>>

\* mkdir, open and json.dump: the file is written, or an OSError leaves main
MainDump ==
    /\ prog = Main
    /\ pc = "m_dump"
    /\ \E written \in BOOLEAN :
        IF written
        THEN /\ trace' = Append(trace, Step("symbols.json", TRUE, result))
             /\ pc' = "m_print"
        ELSE /\ trace' = trace
             /\ pc' = "raised"
    /\ UNCHANGED <<prog, max_retries, attempt, retry, fdr_success, all_stocks,
                   existing_codes, sources_used, final_stocks, result, locals>>

\* print(json.dumps({...})) on stdout
MainSummary ==
    /\ prog = Main
    /\ pc = "m_print"
    /\ trace' = Append(trace, Step("stdout", TRUE,
                           Summary(locals.korea_stocks, locals.us_stocks, result)))
    /\ pc' = "done"
    /\ UNCHANGED <<prog, max_retries, attempt, retry, fdr_success, all_stocks,
                   existing_codes, sources_used, final_stocks, result, locals>>

InitMain ==
    /\ prog = Main
    /\ pc = "m_korea"
    /\ max_retries = MaxRetries
    /\ attempt = 0
    /\ retry = NoRetries
    /\ fdr_success = FALSE
    /\ all_stocks = <<>>
    /\ existing_codes = {}
    /\ sources_used = <<>>
    /\ final_stocks = <<>>
    /\ result = NoResult
    /\ trace = <<>>
    /\ locals = [korea_stocks |-> <<>>, us_stocks |-> <<>>]

NextMain == MainKoreaStocks \/ MainUsStocks \/ MainAllSymbols \/ MainDump \/ MainSummary

SpecMain == InitMain /\ [][NextMain]_vars

\* ------------------------------------------------ api/stock/[symbol].py
Handler == "handler.do_GET"

Slash == <<"/">>

SegApi == <<"a", "p", "i">>

SegStock == <<"s", "t", "o", "c", "k">>

DotKS == <<".", "K", "S">>

\* request paths: with a US ticker, a Korean code, a '.KS' code, and without a symbol
Paths ==
    { Slash \o SegApi \o Slash \o SegStock \o Slash \o AAPL,
      Slash \o SegApi \o Slash \o SegStock \o Slash \o K5930,
      Slash \o SegApi \o Slash \o SegStock \o Slash \o K5930 \o DotKS,
      Slash \o SegApi \o Slash \o SegStock \o Slash,
      Slash \o SegApi \o Slash \o SegStock,
      Slash \o SegApi,
      Slash }

\* [p for p in path.split('/') if p]; cur is the segment being read
RECURSIVE Parts(_, _)
Parts(path, cur) ==
    IF path = <<>> THEN (IF cur = <<>> THEN <<>> ELSE <<cur>>)
    ELSE IF Head(path) = "/"
         THEN (IF cur = <<>> THEN <<>> ELSE <<cur>>) \o Parts(Tail(path), <<>>)
         ELSE Parts(Tail(path), Append(cur, Head(path)))

\* parts[-1] if len(parts) > 0 else ''
SymbolOf(path) ==
    LET parts == Parts(path, <<>>)
    IN  IF Len(parts) > 0 THEN parts[Len(parts)] ELSE <<>>

EndsWith(s, suffix) ==
    /\ Len(s) >= Len(suffix)
    /\ SubSeq(s, Len(s) - Len(suffix) + 1, Len(s)) = suffix

is_korea_stock(symbol) == EndsWith(symbol, DotKS) \/ (Len(symbol) = 6 /\ IsDigit(symbol))

\* symbol.replace('.KS', '')
RECURSIVE ReplaceKS(_)
ReplaceKS(symbol) ==
    IF symbol = <<>> THEN <<>>
    ELSE IF Len(symbol) >= 3 /\ SubSeq(symbol, 1, 3) = DotKS
         THEN ReplaceKS(SubSeq(symbol, 4, Len(symbol)))
         ELSE <<Head(symbol)>> \o ReplaceKS(Tail(symbol))

\* BaseHTTPRequestHandler.send_error: the status line and the handler's HTML
\* error page (error_content_type, error_message_format)
SendError(code, message) ==
    [status |-> code, content_type |-> "text/html;charset=utf-8",
     body |-> [html |-> message]]

\* send_response, Content-type: application/json, json.dumps(obj)
SendJson(code, obj) ==
    [status |-> code, content_type |-> "application/json", body |-> obj]

\* what fdr.DataReader / Ticker.history give: an exception, or a frame of
\* closing prices, with or without its Close column
Frames ==
    {[kind |-> "exc", columns |-> {}, rows |-> <<>>]} \cup
    { [kind |-> "frame", columns |-> c, rows |-> r] :
        c \in {{"Close"}, {}}, r \in BoundedSeq({0, 1, 2}, MaxRecs) }

\* calculate_indicators on a frame of fewer than five rows (the frames
\* here are shorter; RSI and the averages of longer frames are floating-point)
calculate_indicators(rows) ==
    LET latest_price == IF Len(rows) > 0 THEN rows[Len(rows)] ELSE 0
    IN  [rsi |-> 50, ma5 |-> latest_price, ma20 |-> latest_price,
         ma60 |-> latest_price, ma120 |-> latest_price]

\* the result dict of a frame with rows; percentages in whole numbers
ResultOf(symbol, rows) ==
    LET latest == rows[Len(rows)]
        previous == IF Len(rows) > 1 THEN rows[Len(rows) - 1] ELSE latest
        change == latest - previous
        indicators == calculate_indicators(rows)
    IN  [symbol |-> symbol, price |-> latest, change |-> change,
         changePercent |-> IF previous > 0 THEN (change * 100) \div previous ELSE 0,
         rsi |-> indicators.rsi, ma20 |-> indicators.ma20,
         disparity |-> IF indicators.ma20 > 0 THEN (latest * 100) \div indicators.ma20 ELSE 100,
         historicalData |-> rows]

\* lines 107-117: the symbol is the last part of the path
DoGetSymbol ==
    /\ prog = Handler
    /\ pc = "h_symbol"
    /\ LET symbol == SymbolOf(locals.path)
           missing == symbol = <<>> \/ symbol = SegStock \/ symbol = SegApi
       IN  /\ locals' = [locals EXCEPT !.symbol = symbol,
                                        !.sent = IF missing THEN Append(@, 400) ELSE @]
           /\ trace' = Append(trace, Step("symbol", ~missing, symbol))
           /\ result' = IF missing THEN SendError(400, "Symbol required") ELSE result
           /\ pc' = IF missing THEN "done" ELSE "h_packages"
    /\ UNCHANGED <<prog, max_retries, attempt, retry, fdr_success, all_stocks,
                   existing_codes, sources_used, final_stocks>>

\* lines 119-136: the packages imported at module load
DoGetPackages ==
    /\ prog = Handler
    /\ pc = "h_packages"
    /\ trace' = Append(trace, Step("packages", locals.yf /\ locals.fdr, <<>>))
    /\ result' = IF ~locals.yf
                 THEN SendJson(500, [error |-> "yfinance package is not installed"])
                 ELSE IF ~locals.fdr
                 THEN SendJson(500, [error |-> "Required packages are not installed"])
                 ELSE result
    /\ locals' = [locals EXCEPT !.sent = IF locals.yf /\ locals.fdr THEN @ ELSE Append(@, 500)]
    /\ pc' = IF locals.yf /\ locals.fdr THEN "h_fetch" ELSE "done"
    /\ UNCHANGED <<prog, max_retries, attempt, retry, fdr_success, all_stocks,
                   existing_codes, sources_used, final_stocks>>

\* lines 138-157: the 120 days of prices, from FinanceDataReader or yfinance
DoGetFetch ==
    /\ prog = Handler
    /\ pc = "h_fetch"
    /\ \E df \in Frames :
        LET source == IF is_korea_stock(locals.symbol) THEN "fdr.DataReader" ELSE "yf.Ticker"
            asked == IF is_korea_stock(locals.symbol)
                     THEN ReplaceKS(locals.symbol) ELSE locals.symbol
        IN  /\ locals' = [locals EXCEPT !.df = df,
                                         !.sent = IF df.kind = "exc" THEN Append(@, 500)
                                                  ELSE IF df.rows = <<>> THEN Append(@, 404)
                                                  ELSE @]
            /\ trace' = Append(trace, Step(source, df.kind = "frame" /\ df.rows # <<>>, asked))
            /\ result' = IF df.kind = "exc" THEN SendJson(500, [error |-> "fetch raised"])
                         ELSE IF df.rows = <<>> THEN SendError(404, "No data found")
                         ELSE result
            /\ pc' = IF df.kind = "frame" /\ df.rows # <<>> THEN "h_compute" ELSE "done"
    /\ UNCHANGED <<prog, max_retries, attempt, retry, fdr_success, all_stocks,
                   existing_codes, sources_used, final_stocks>>

\* lines 159-220: the result, or the handler of a KeyError on a missing
\* column.  The body is written after send_response(200) and end_headers():
\* when wfile.write raises (the client is gone), the same handler runs and
\* calls send_response(500)
DoGetCompute ==
    /\ prog = Handler
    /\ pc = "h_compute"
    /\ \E written \in BOOLEAN :
        LET computed == "Close" \in locals.df.columns
        IN  /\ computed \/ written
            /\ trace' = IF computed /\ ~written
                         THEN trace \o <<Step("compute", TRUE, <<>>),
                                          Step("wfile.write", FALSE, <<>>)>>
                         ELSE Append(trace, Step("compute", computed, <<>>))
            /\ result' = IF computed /\ written
                          THEN SendJson(200, ResultOf(locals.symbol, locals.df.rows))
                          ELSE IF computed
                          THEN SendJson(500, [error |-> "write raised"])
                          ELSE SendJson(500, [error |-> "'Close'"])
            /\ locals' = [locals EXCEPT !.sent = IF computed /\ written THEN Append(@, 200)
                                                  ELSE IF computed THEN @ \o <<200, 500>>
                                                  ELSE Append(@, 500)]
    /\ pc' = "done"
    /\ UNCHANGED <<prog, max_retries, attempt, retry, fdr_success, all_stocks,
                   existing_codes, sources_used, final_stocks>>

\* a request arrives at a loaded module; yf, fdr: the imports succeeded;
\* sent: the status codes passed to send_response / send_error so far
InitHandler ==
    /\ prog = Handler
    /\ pc = "h_symbol"
    /\ max_retries = MaxRetries
    /\ attempt = 0
    /\ retry = NoRetries
    /\ fdr_success = FALSE
    /\ all_stocks = <<>>
    /\ existing_codes = {}
    /\ sources_used = <<>>
    /\ final_stocks = <<>>
    /\ result = NoResult
    /\ trace = <<>>
    /\ \E path \in Paths, yf \in BOOLEAN, fdr \in BOOLEAN :
            locals = [path |-> path, yf |-> yf, fdr |-> fdr, symbol |-> <<>>, sent |-> <<>>,
                      df |-> [kind |-> "none", columns |-> {}, rows |-> <<>>]]

NextHandler == DoGetSymbol \/ DoGetPackages \/ DoGetFetch \/ DoGetCompute

SpecHandler == InitHandler /\ [][NextHandler]_vars

\* ------------------- test_python_stock.py next to api/stock/[symbol].py
TestScript == "test_python_stock"

\* price rows a frame can have: past the longest window
MaxRows == 121

\* characters of the Hangul syllables block, U+AC00..U+D7A3, each one a
\* character of a symbol
HangulChars == {"U+AC00", "U+D7A3"}

\* symbols given to both programs
ComparedSymbols ==
    { AAPL, K5930, K5Digit, K5930 \o DotKS, AAPL \o DotKS, <<>>,
      <<"U+AC00", "U+D7A3">>, <<"U+AC00">> \o AAPL }

\* is_korea_stock of the test script: '.KS', six digits, or a Hangul syllable
is_korea_stock_script(symbol) ==
    \/ EndsWith(symbol, DotKS)
    \/ (Len(symbol) = 6 /\ IsDigit(symbol))
    \/ \E i \in 1..Len(symbol) : symbol[i] \in HangulChars

\* df['Close'].rolling(window).mean().iloc[-1] of a frame of n rows: the
\* mean of the last window rows, NaN when the frame is shorter
Rolling(window, n) == IF n >= window THEN <<"rolling", window>> ELSE <<"nan", window>>

LatestPrice == <<"latest_price">>

\* where calculate_indicators of the endpoint takes each average from
IndicatorSources(n) ==
    IF n < 5
    THEN [ma5 |-> LatestPrice, ma20 |-> LatestPrice, ma60 |-> LatestPrice,
          ma120 |-> LatestPrice]
    ELSE LET ma5 == Rolling(5, n)
             ma20 == Rolling(20, n)
             ma60 == IF n >= 60 THEN Rolling(60, n) ELSE ma20
             ma120 == IF n >= 120 THEN Rolling(120, n) ELSE ma60
         IN  [ma5 |-> ma5, ma20 |-> ma20, ma60 |-> ma60, ma120 |-> ma120]

\* safe_ma of the test script
safe_ma(window, n) ==
    IF n < window THEN LatestPrice
    ELSE IF Rolling(window, n)[1] = "nan" THEN LatestPrice ELSE Rolling(window, n)

\* where calculate_indicators of the test script takes each average from
IndicatorSourcesScript(n) ==
    IF n < 5
    THEN [ma5 |-> LatestPrice, ma20 |-> LatestPrice, ma60 |-> LatestPrice,
          ma120 |-> LatestPrice]
    ELSE [ma5 |-> safe_ma(5, n), ma20 |-> safe_ma(20, n), ma60 |-> safe_ma(60, n),
          ma120 |-> safe_ma(120, n)]

\* both programs classify the symbol
BothClassify ==
    /\ prog = TestScript
    /\ pc = "t_classify"
    /\ locals' = [locals EXCEPT !.api.korea = is_korea_stock(locals.symbol),
                                !.script.korea = is_korea_stock_script(locals.symbol)]
    /\ pc' = "t_indicators"
    /\ UNCHANGED <<prog, max_retries, attempt, retry, fdr_success, all_stocks,
                   existing_codes, sources_used, final_stocks, result, trace>>

\* both programs compute the indicators of the frame
BothCalculate ==
    /\ prog = TestScript
    /\ pc = "t_indicators"
    /\ locals' = [locals EXCEPT !.api.averages = IndicatorSources(locals.rows),
                                !.script.averages = IndicatorSourcesScript(locals.rows)]
    /\ pc' = "done"
    /\ UNCHANGED <<prog, max_retries, attempt, retry, fdr_success, all_stocks,
                   existing_codes, sources_used, final_stocks, result, trace>>

InitCompared ==
    /\ prog = TestScript
    /\ pc = "t_classify"
    /\ max_retries = MaxRetries
    /\ attempt = 0
    /\ retry = NoRetries
    /\ fdr_success = FALSE
    /\ all_stocks = <<>>
    /\ existing_codes = {}
    /\ sources_used = <<>>
    /\ final_stocks = <<>>
    /\ result = NoResult
    /\ trace = <<>>
    /\ \E symbol \in ComparedSymbols, rows \in 0..MaxRows :
            locals = [symbol |-> symbol, rows |-> rows,
                      api |-> [korea |-> FALSE, averages |-> <<>>],
                      script |-> [korea |-> FALSE, averages |-> <<>>]]

NextCompared == BothClassify \/ BothCalculate

SpecCompared == InitCompared /\ [][NextCompared]_vars

\* ------------------------------------------------------------ the pipelines
\* a run that enters the Korean pipelines at the backup CSV, past the primary source
FirstStepPastPrimary(p) ==
    CASE p = CompKR -> "github_csv"
      [] p = CompUS -> "us_fdr"
      [] p = GenKR -> "g_github"
      [] p = GenUS -> "u_finnhub"
      [] p = Listing -> "l_fdr"

FirstStep(p) ==
    CASE p = CompKR -> "fdr_krx"
      [] p = CompUS -> "us_fdr"
      [] p = GenKR -> "g_naver"
      [] p = GenUS -> "u_finnhub"
      [] p = Listing -> "l_fdr"

\* the locals a run can start with: get_us_stocks in any environment
FirstLocals(p) ==
    CASE p = GenKR -> {[NoLocals EXCEPT !.market = "KOSPI", !.page = 1]}
      [] p = GenUS -> {[NoLocals EXCEPT !.env = e] : e \in SUBSET EnvNames}
      [] OTHER -> {NoLocals}

Init ==
    /\ prog \in {CompKR, CompUS, GenKR, GenUS, Listing}
    /\ pc = FirstStep(prog)
    /\ max_retries \in (IF prog \in {CompKR, Listing} THEN 1..MaxRetries ELSE {MaxRetries})
    /\ attempt = 0
    /\ retry = NoRetries
    /\ fdr_success = FALSE
    /\ all_stocks = <<>>
    /\ existing_codes = {}
    /\ sources_used = <<>>
    /\ final_stocks = <<>>
    /\ result = NoResult
    /\ trace = <<>>
    /\ locals \in FirstLocals(prog)

Next ==
    \/ FdrKrxAttempt
    \/ FdrKosdaqAttempt
    \/ GithubCsvStepKR
    \/ NaverAllStepKR
    \/ NaverEtfStepKR
    \/ ManualOverlayKR
    \/ DedupStageKR
    \/ EmitStatsKR
    \/ FdrStepUS
    \/ GithubStepUS
    \/ DedupStageUS
    \/ NaverPageGen
    \/ GithubCsvStepGen
    \/ PykrxDayGen
    \/ FdrStepGen
    \/ EtfPageGen
    \/ EtfStepGen
    \/ ManualOverlayGen
    \/ EmitStatsGen
    \/ FinnhubStepGen
    \/ FmpStepGen
    \/ GithubTickersGen
    \/ EmitStatsUS
    \/ ListingAttempt
    \/ ListingFallback

Spec == Init /\ [][Next]_vars

\* ------------------------------------------------------ reading the state
CodeOf(r) == IF "code" \in DOMAIN r THEN r.code ELSE r.Symbol

NameOf(r) == IF "name" \in DOMAIN r THEN r.name ELSE r.Name

Indices(seq) == 1..Len(seq)

\* the key and the skip test of the dedup stage of the run's pipeline
DedupKey(r) == IF prog = CompUS THEN KeyUS(r) ELSE KeyKR(r)

DedupSkipped(r) == IF prog = CompUS THEN SkippedUS(r) ELSE SkippedKR(r)

DedupDone == prog \in {CompKR, CompUS} /\ pc \in {"stats", "done"}

\* position in all_stocks of the record the dedup stage kept as final_stocks[i]
KeptFrom(i) ==
    IF \E j \in Indices(all_stocks) : all_stocks[j] = final_stocks[i]
    THEN CHOOSE j \in Indices(all_stocks) :
            /\ all_stocks[j] = final_stocks[i]
            /\ \A k \in 1..(j - 1) : all_stocks[k] # final_stocks[i]
    ELSE 0

\* r's name is longer than k's, however the length is taken (as given or trimmed)
LongerName(r, k) ==
    /\ Len(r.Name) > Len(k.Name)
    /\ Len(Strip(r.Name)) > Len(Strip(k.Name))

SameNameLength(r, k) ==
    /\ Len(r.Name) = Len(k.Name)
    /\ Len(Strip(r.Name)) = Len(Strip(k.Name))

\* the steps of the trace that are sources (not the manual overlay)
SourceSteps == {i \in Indices(trace) : trace[i].src # "manual_overlay"}

\* a raw record with nothing to trim and nothing missing
Clean(r) ==
    /\ r.Symbol # NoneVal /\ r.Name # NoneVal
    /\ r.Symbol # <<>> /\ Strip(r.Symbol) = r.Symbol
    /\ r.Name # <<>> /\ Strip(r.Name) = r.Name
    /\ prog \in {CompKR, GenKR, Listing} => IsKRCode(r.Symbol)

\* the final records for a code
FinalFor(code) == {i \in Indices(final_stocks) : CodeOf(final_stocks[i]) = code}

\* the normalized uniqueness key of a code: trimmed, uppercased unless numeric
NormalizedKey(code) ==
    IF IsDigit(Strip(code)) THEN Strip(code) ELSE Upper(Strip(code))

\* the pipelines that merge several sources into one list
IsPipeline == prog \in {CompKR, CompUS, GenKR, GenUS}

\* every source step of the run returned nothing
NoSourceData == \A i \in SourceSteps : trace[i].data = <<>>

\* the overlay step added no record
NoOverlayData == \A i \in Indices(trace) : trace[i].src = "manual_overlay" => trace[i].data = <<>>

\* the retry loops: the step of each, its log, and the step that follows it
RetryLoops ==
    { [prog |-> CompKR, src |-> "fdr_krx", log |-> "KRX", next |-> "fdr_kosdaq"],
      [prog |-> CompKR, src |-> "fdr_kosdaq", log |-> "KOSDAQ", next |-> "github_csv"],
      [prog |-> Listing, src |-> "fdr_krx", log |-> "KRX", next |-> "l_github"] }

\* the retry loop of step src has been left
LoopLeft(src) == \E i \in Indices(trace) : trace[i].src = src

\* every call of the loop raised
AllRaised(log) == retry[log].calls > 0 /\ retry[log].raised = retry[log].calls

\* ------------------------------------------------------------------ claims
\* C1: in the dedup stage of both comprehensive listings, of the valid records
\* that share a key the one kept has the strictly longest name, among equally
\* long names the first encountered is kept, and the output record is one of
\* the input records, whole.
C1_LongestNameKept ==
    DedupDone =>
        \A i \in Indices(final_stocks) :
            /\ KeptFrom(i) # 0
            /\ \A j \in Indices(all_stocks) :
                  (~DedupSkipped(all_stocks[j])
                        /\ DedupKey(all_stocks[j]) = DedupKey(final_stocks[i]))
                     => /\ ~LongerName(all_stocks[j], final_stocks[i])
                        /\ SameNameLength(all_stocks[j], final_stocks[i]) => KeptFrom(i) <= j

\* C2: over a whole run, when a source returned a record for a code and a later
\* (lower-priority) source returned a record for the same code with a strictly
\* longer name, the final list has exactly one record for the code and it
\* carries the longer name.
C2_LaterLongerNameWins ==
    (pc = "done" /\ prog \in {CompKR, CompUS, GenKR}) =>
        \A a \in SourceSteps, b \in SourceSteps :
            a < b =>
                \A x \in Indices(trace[a].data), y \in Indices(trace[b].data) :
                    LET ra == trace[a].data[x]
                        rb == trace[b].data[y]
                    IN  (Clean(ra) /\ Clean(rb) /\ ra.Symbol = rb.Symbol
                            /\ Len(rb.Name) > Len(ra.Name))
                        => /\ Cardinality(FinalFor(ra.Symbol)) = 1
                           /\ \A i \in FinalFor(ra.Symbol) :
                                 Len(NameOf(final_stocks[i])) >= Len(rb.Name)

\* C3: after any run of a listing pipeline no two records of the final list
\* have the same normalized key (code trimmed, and uppercased unless numeric).
C3_UniqueNormalizedKeys ==
    (pc = "done" /\ IsPipeline) =>
        \A i \in Indices(final_stocks), j \in Indices(final_stocks) :
            i # j => NormalizedKey(CodeOf(final_stocks[i])) # NormalizedKey(CodeOf(final_stocks[j]))

\* C4: a record whose code or name is empty or only whitespace never appears
\* in the final list of any pipeline.
C4_NoBlankCodeOrName ==
    (pc = "done" /\ IsPipeline) =>
        \A i \in Indices(final_stocks) :
            /\ Strip(CodeOf(final_stocks[i])) # <<>>
            /\ Strip(NameOf(final_stocks[i])) # <<>>

\* C5: when every source fails or returns nothing and the overlay adds nothing,
\* the run reports success = false with a zero total; a result with
\* success = true and zero records is never emitted.
C5_TotalFailureReported ==
    (pc = "done" /\ prog \in {CompKR, CompUS}) =>
        /\ (NoSourceData /\ NoOverlayData) => (~result.success /\ result.count = 0)
        /\ ~(result.success /\ result.count = 0)

\* C6: a source call that fails on every attempt of its retry loop is made
\* exactly max_retries times, never more, whatever the exceptions are, and the
\* run then goes on to the next source.
C6_RetryBound ==
    /\ \A m \in DOMAIN retry : retry[m].calls <= max_retries
    /\ \A l \in RetryLoops :
          (prog = l.prog /\ LoopLeft(l.src) /\ AllRaised(l.log))
             => /\ retry[l.log].calls = max_retries
                /\ trace[Len(trace)].src = l.src => pc = l.next

C6_Witness ==
    /\ prog = CompKR
    /\ pc = "github_csv"
    /\ max_retries >= 2
    /\ AllRaised("KRX")
    /\ AllRaised("KOSDAQ")

\* the overlay step of the run, as recorded in the trace (0 before it ran)
OverlayStep ==
    IF \E i \in Indices(trace) : trace[i].src = "manual_overlay"
    THEN CHOOSE i \in Indices(trace) : trace[i].src = "manual_overlay"
    ELSE 0

\* the key of the overlay's one entry
OverlayKey == IF prog = CompKR THEN manual_stocks[1].Symbol ELSE manual_tickers[1]

\* the overlay ran and found no record for its key in the merged set: it
\* looked the ticker up, and the lookup failed or its record was added
OverlayKeyWasAbsent ==
    /\ OverlayStep # 0
    /\ ~trace[OverlayStep].ok \/ trace[OverlayStep].data # <<>>

\* the merged set the overlay step was given had no record for the overlay
\* key, whether the code is compared as given or trimmed
NoRecordForOverlayKey ==
    /\ OverlayKeyWasAbsent
    /\ \A i \in 1..(Len(all_stocks) - Len(trace[OverlayStep].data)) :
          Strip(CodeOf(all_stocks[i])) # OverlayKey

\* the final records whose trimmed code is the overlay key
FinalForOverlayKey ==
    {i \in Indices(final_stocks) : Strip(CodeOf(final_stocks[i])) = OverlayKey}

\* final record r carries the code, name and market of record v
SameListing(r, v) ==
    /\ CodeOf(r) = CodeOf(v)
    /\ NameOf(r) = NameOf(v)
    /\ (IF "market" \in DOMAIN r THEN r.market ELSE r.Market)
          = (IF "market" \in DOMAIN v THEN v.market ELSE v.Market)

\* r is the overlay list's own entry: the hardcoded record of
\* get_comprehensive_stock_listing, the bare ticker of get_korea_stocks
IsOverlayEntry(r) ==
    IF prog = CompKR THEN r = manual_stocks[1] ELSE CodeOf(r) = manual_tickers[1]

\* C7 as stated: when the merged set has no record for the overlay key, the
\* final set has exactly one record for the key and it equals the overlay
\* entry, whatever the ticker lookup returned.
C7_OverlayValueKept ==
    (pc = "done" /\ prog \in {CompKR, GenKR} /\ NoRecordForOverlayKey) =>
        /\ Cardinality(FinalForOverlayKey) = 1
        /\ \A i \in FinalForOverlayKey :
              /\ IsOverlayEntry(final_stocks[i])
              /\ prog = CompKR => SameListing(final_stocks[i], manual_stocks[1])

\* C7 amended: when the merged set has no record for the overlay key, a
\* successful ticker lookup puts exactly one record for the key in the final
\* set, the lookup's; a failed lookup leaves exactly the hardcoded entry in
\* get_comprehensive_stock_listing and no record in get_korea_stocks.
C7_OverlayLookupFirst ==
    (pc = "done" /\ prog \in {CompKR, GenKR} /\ NoRecordForOverlayKey) =>
        IF locals.ticker_info # <<>>
        THEN /\ Cardinality(FinalForOverlayKey) = 1
             /\ \A i \in FinalForOverlayKey :
                   SameListing(final_stocks[i], locals.ticker_info[1])
        ELSE IF prog = CompKR
             THEN /\ Cardinality(FinalForOverlayKey) = 1
                  /\ \A i \in FinalForOverlayKey : final_stocks[i] = manual_stocks[1]
             ELSE FinalForOverlayKey = {}

C7_Witness ==
    /\ pc = "done"
    /\ prog = CompKR
    /\ NoRecordForOverlayKey
    /\ locals.ticker_info # <<>>
    /\ locals.ticker_info[1].Name # manual_stocks[1].Name
    /\ Len(final_stocks) > 1
    /\ \E i \in FinalForOverlayKey : final_stocks[i] = locals.ticker_info[1]

\* the overlay step is the next to run
AtOverlay == (prog = CompKR /\ pc = "overlay") \/ (prog = GenKR /\ pc = "g_overlay")

\* the overlay step has just run
AfterOverlay == (prog = CompKR /\ pc = "dedup") \/ (prog = GenKR /\ pc = "g_stats")

\* positions of the merged set's records whose code is the overlay key
MergedForOverlayKey == {i \in Indices(all_stocks) : CodeOf(all_stocks[i]) = OverlayKey}

\* r is a record the overlay can produce for its key: the hardcoded entry or a
\* result of the ticker lookup
IsOverlayRecord(r) ==
    IF prog = CompKR
    THEN \/ r = manual_stocks[1]
         \/ \E lookup \in TickerLookups(OverlayKey) : lookup.found /\ r = lookup.info
    ELSE \E lookup \in TickerLookupsGen(OverlayKey) : lookup.found /\ r = lookup.info

\* C8 as stated: when the merged set already has a record for the overlay key,
\* the overlay step replaces it with the overlay's record.
C8_OverlayReplaces ==
    (AfterOverlay /\ ~OverlayKeyWasAbsent) =>
        \A i \in MergedForOverlayKey : IsOverlayRecord(all_stocks[i])

\* C8 amended: when the merged set already has a record whose code is exactly
\* the overlay key (compared as given, untrimmed), the overlay step leaves the
\* merged set as it is (the record is kept, not replaced); otherwise the step
\* appends at most one record, a record for that key.
C8_OverlayOnlyInserts ==
    [][AtOverlay =>
          IF MergedForOverlayKey # {}
          THEN all_stocks' = all_stocks
          ELSE \/ all_stocks' = all_stocks
               \/ /\ Len(all_stocks') = Len(all_stocks) + 1
                  /\ SubSeq(all_stocks', 1, Len(all_stocks)) = all_stocks
                  /\ CodeOf(all_stocks'[Len(all_stocks')]) = OverlayKey]_vars

C8_Witness ==
    /\ AfterOverlay
    /\ ~OverlayKeyWasAbsent
    /\ \E i \in MergedForOverlayKey : ~IsOverlayRecord(all_stocks[i])

\* the source steps and the overlay step of each merging run, in code order
StepsOf(p) ==
    IF p = CompKR
    THEN <<"fdr_krx", "fdr_kosdaq", "github_csv", "naver_all", "naver_etf", "manual_overlay">>
    ELSE IF p = GenKR
    THEN <<"naver_all", "github_csv", "pykrx", "fdr_krx", "naver_etf", "manual_overlay">>
    ELSE <<"finnhub", "fmp", "NASDAQ", "NYSE", "AMEX">>

\* the steps the run has finished so far
StepsRun == [i \in Indices(trace) |-> trace[i].src]

\* s is the beginning of t
IsPrefix(s, t) == Len(s) <= Len(t) /\ SubSeq(t, 1, Len(s)) = s

\* the records a step appends to the merged set
Added(before, after) == SubSeq(after, Len(before) + 1, Len(after))

\* record r of the merged set was made from one of the raw records in data
MadeFrom(r, data) ==
    \E k \in Indices(data) :
        /\ data[k].Symbol # NoneVal
        /\ CodeOf(r) \in {data[k].Symbol, Strip(data[k].Symbol)}

\* whatever fails, a finished run has been through every source step and the
\* overlay step
EveryStepRun ==
    (pc = "done" /\ prog \in {CompKR, GenKR, GenUS}) => StepsRun = StepsOf(prog)

\* the action finishes a source step that failed
FailedStepEnds ==
    /\ Len(trace') = Len(trace) + 1
    /\ trace'[Len(trace')].src # "manual_overlay"
    /\ ~trace'[Len(trace')].ok

\* C9 as stated: whatever fails, every later source and the overlay are still
\* run and a result is returned; a source step that fails adds no record, and
\* the records of earlier sources are left as they were.
FailedStepAddsNothing ==
    prog \in {CompKR, GenKR, GenUS} =>
        /\ IsPrefix(all_stocks, all_stocks')
        /\ FailedStepEnds => all_stocks' = all_stocks

C9_FailedStepAddsNothing == []EveryStepRun /\ [][FailedStepAddsNothing]_vars

\* C9 amended: whatever fails, every later source and the overlay are still
\* run and a result is returned; the records of earlier sources are left as
\* they were; a source step that fails before it read any record adds none,
\* and one that fails part-way keeps the records it had read up to the failure.
FailedStepKeepsWhatItRead ==
    prog \in {CompKR, GenKR, GenUS} =>
        /\ IsPrefix(all_stocks, all_stocks')
        /\ trace' = trace => all_stocks' = all_stocks
        /\ FailedStepEnds =>
              LET data == trace'[Len(trace')].data
                  added == Added(all_stocks, all_stocks')
              IN  /\ data = <<>> => added = <<>>
                  /\ \A n \in Indices(added) : MadeFrom(added[n], data)

C9_FailureIsNotFatal == []EveryStepRun /\ [][FailedStepKeepsWhatItRead]_vars

C9_Witness ==
    /\ pc = "done"
    /\ prog = GenUS
    /\ StepsRun = StepsOf(GenUS)
    /\ ~trace[1].ok /\ trace[1].data # <<>>
    /\ ~trace[2].ok /\ trace[2].data = <<>>
    /\ Len(all_stocks) = 1
    /\ MadeFrom(all_stocks[1], trace[1].data)
    /\ final_stocks = all_stocks

\* the control points of the two Korean pipelines, in the order of the code
PcOrder(p) ==
    IF p = CompKR
    THEN <<"fdr_krx", "fdr_kosdaq", "github_csv", "naver_all", "naver_etf", "overlay",
           "dedup", "stats", "done">>
    ELSE <<"g_naver", "g_github", "g_pykrx", "g_fdr", "g_etf", "g_overlay", "g_stats",
           "done">>

\* position of control point c in the order (0 when it is not one of p's)
Position(p, c) ==
    IF \E k \in Indices(PcOrder(p)) : PcOrder(p)[k] = c
    THEN CHOOSE k \in Indices(PcOrder(p)) : PcOrder(p)[k] = c
    ELSE 0

\* at each control point exactly the steps before it have finished, each once
StepsBeforeFinished ==
    prog \in {CompKR, GenKR} =>
        /\ Position(prog, pc) # 0
        /\ StepsRun = SubSeq(StepsOf(prog), 1,
                             Min(Position(prog, pc) - 1, Len(StepsOf(prog))))

\* control moves only to the next point of the order
MovesToNextStep ==
    (prog \in {CompKR, GenKR} /\ pc' # pc) =>
        Position(prog, pc') = Position(prog, pc) + 1

\* C10: a run of a Korean listing pipeline goes through its steps in one
\* fixed order, one after the other and none twice: the primary source, the
\* backup sources in priority order, the ETF source, the manual overlay, the
\* statistics, then done (get_comprehensive_stock_listing removes duplicates
\* between the overlay and its final count).
C10_FixedStepOrder == []StepsBeforeFinished /\ [][MovesToNextStep]_vars

C10_Witness ==
    /\ prog = GenKR
    /\ pc = "done"
    /\ StepsRun = StepsOf(GenKR)
    /\ \E i, j \in Indices(trace) : ~trace[i].ok /\ trace[j].ok /\ trace[j].data # <<>>

\* C11: no record whose code is not exactly six decimal digits is in the
\* final Korean list, whichever source supplied it; a record with a six-digit
\* code and a non-empty name that a successful source supplied is kept.
C11_SixDigitCodesOnly ==
    (pc = "done" /\ prog \in {CompKR, GenKR}) =>
        /\ \A i \in Indices(final_stocks) : IsKRCode(CodeOf(final_stocks[i]))
        /\ \A i \in SourceSteps :
              trace[i].ok =>
                 \A k \in Indices(trace[i].data) :
                     Clean(trace[i].data[k]) =>
                        \E n \in Indices(final_stocks) :
                            Strip(CodeOf(final_stocks[n])) = trace[i].data[k].Symbol

\* C12: every record of the final US list carries its code in uppercase,
\* whichever source supplied it.
C12_UpperCaseCodes ==
    (pc = "done" /\ prog \in {CompUS, GenUS}) =>
        \A i \in Indices(final_stocks) :
            CodeOf(final_stocks[i]) = Upper(CodeOf(final_stocks[i]))

\* the retry loops a run of prog goes through
LoopsOf(p) ==
    IF p = CompKR THEN {"KRX", "KOSDAQ"} ELSE IF p = Listing THEN {"KRX"} ELSE {}

EmptyReturn(m) ==
    /\ retry'[m].calls = retry[m].calls + 1
    /\ retry'[m].raised = retry[m].raised
    /\ ~(Len(trace') = Len(trace) + 1 /\ trace'[Len(trace')].data # <<>>)

\* C14: a source call that returns normally with an empty listing is not made
\* again: the retry loop is left at once, with nothing added.
C14_EmptyNotRetried ==
    [][\A m \in LoopsOf(prog) :
          EmptyReturn(m) => (pc' # pc /\ all_stocks' = all_stocks)]_vars

\* an attempt of loop l has returned records
ReturnedRecords(l) ==
    /\ prog = l.prog
    /\ \E i \in Indices(trace) : trace[i].src = l.src /\ trace[i].data # <<>>

\* C15: once an attempt of a source call has returned records, the retry loop
\* calls that source no more in the run and sleeps no more for it.
C15_NoCallAfterSuccess ==
    [][\A l \in RetryLoops :
          ReturnedRecords(l) => retry'[l.log] = retry[l.log]]_vars

C15_Witness ==
    /\ prog = CompKR
    /\ pc = "done"
    /\ ReturnedRecords(CHOOSE l \in RetryLoops : l.prog = CompKR /\ l.log = "KRX")
    /\ retry["KRX"].calls = 1
    /\ max_retries = 2
    /\ retry["KOSDAQ"].calls = 2

\* C16: when every attempt of get_stock_listing fails and the result is a
\* failure, the error it reports is the error of the last attempt made.
C16_LastErrorReported ==
    (prog = Listing /\ pc = "done" /\ ~result.success) =>
        /\ retry["KRX"].calls = max_retries
        /\ result.error[1] \in {"json", "exc", "empty"}
        /\ result.error[2] = retry["KRX"].calls

C16_Witness ==
    /\ prog = Listing
    /\ pc = "done"
    /\ ~result.success
    /\ max_retries = 2
    /\ retry["KRX"].raised = 1
    /\ result.error = <<"json", 2>>

\* the steps of the run's trace for source src
StepsFor(src) == {i \in Indices(trace) : trace[i].src = src}

\* C17: get_stock_listing consults the GitHub CSV fallback only after all
\* max_retries FinanceDataReader attempts failed, never after one succeeded;
\* a success names the source that produced the data, and the result is a
\* failure only when FinanceDataReader and the fallback both failed.
C17_FallbackAfterRetries ==
    prog = Listing =>
        /\ (pc = "l_github" \/ StepsFor("github_csv") # {}) =>
              /\ retry["KRX"].calls = max_retries
              /\ \A i \in StepsFor("fdr_krx") : ~trace[i].ok
        /\ pc = "done" =>
              LET last == trace[Len(trace)]
              IN  IF result.success
                  THEN /\ last.ok
                       /\ final_stocks = last.data
                       /\ result.count = Len(last.data)
                       /\ result.source = (IF last.src = "fdr_krx"
                                           THEN "fdr_stocklisting" ELSE "github_csv")
                       /\ last.src = "fdr_krx" => StepsFor("github_csv") = {}
                  ELSE \A i \in Indices(trace) : ~trace[i].ok

C17_Witness ==
    /\ prog = Listing
    /\ pc = "done"
    /\ result.success
    /\ result.source = "github_csv"
    /\ result.count >= 1
    /\ max_retries = 2
    /\ retry["KRX"].calls = 2

\* the source step a sources_used label stands for
StepOfLabel(label) ==
    CASE label = "FinanceDataReader KRX" -> "fdr_krx"
      [] label = "FinanceDataReader KOSDAQ" -> "fdr_kosdaq"
      [] label \in {"GitHub CSV", "GitHub CSV (complement"} -> "github_csv"
      [] label = "Naver Finance All Stocks" -> "naver_all"
      [] label = "Naver Finance" -> "naver_etf"
      [] label = "FinanceDataReader" -> "us_fdr"
      [] label = "GitHub" -> "us_github"

\* the dedup keys of the usable records step i of the trace supplied
KeysSupplied(i) ==
    {DedupKey(trace[i].data[k]) :
        k \in {j \in Indices(trace[i].data) : ~DedupSkipped(trace[i].data[j])}}

\* the final records whose key step i was the first to supply
AddedBy(i) ==
    {n \in Indices(final_stocks) :
        /\ ~DedupSkipped(final_stocks[n])
        /\ DedupKey(final_stocks[n]) \in KeysSupplied(i)
        /\ \A h \in 1..(i - 1) : DedupKey(final_stocks[n]) \notin KeysSupplied(h)}

\* C18: the count in a source's sources_used entry is the number of final
\* records whose key was unseen when that source supplied it; a record whose
\* key was already present does not count.
C18_AddedCounts ==
    (pc = "done" /\ prog \in {CompKR, CompUS}) =>
        \A e \in Indices(sources_used) :
            \A i \in StepsFor(StepOfLabel(sources_used[e].label)) :
                sources_used[e].n = Cardinality(AddedBy(i))

\* the record the overlay step added to the merged set (empty when it added none)
OverlayAdded == IF OverlayStep = 0 THEN <<>> ELSE trace[OverlayStep].data

\* C19: the manual overlay is the last step that writes records: the record
\* the overlay step set for its key is in the final list as the overlay set
\* it; no later step, the dedup stage included, changes or removes it.
C19_OverlayWrittenLast ==
    (pc = "done" /\ prog \in {CompKR, GenKR} /\ OverlayAdded # <<>>) =>
        /\ \E n \in FinalForOverlayKey : SameListing(final_stocks[n], OverlayAdded[1])
        /\ \A n \in FinalForOverlayKey : SameListing(final_stocks[n], OverlayAdded[1])

\* the page loops of generate_symbols_json: fetch_market_stocks and
\* get_korea_etf_from_naver
InPageLoop == prog = GenKR /\ pc \in {"g_naver", "g_etf"}

\* every record of stocks has a record of the same code in merged
CodesReach(stocks, merged) ==
    \A i \in 1..Len(stocks) : \E n \in 1..Len(merged) : merged[n].code = stocks[i].code

\* a page request, whatever its outcome, leaves the records of the earlier
\* pages in the adapter's list
PageKeepsCollected ==
    (InPageLoop /\ pc' = pc) => IsPrefix(locals.stocks, locals'.stocks)

\* when the adapter returns, the records of its pages are in the merged list:
\* fetch_market_stocks feeds step 1, so each record is there as read; an ETF
\* record is there unless an earlier step already supplied its code
CollectedReachMerged ==
    (InPageLoop /\ pc' # pc) =>
        /\ CodesReach(locals.stocks, all_stocks')
        /\ pc = "g_naver" =>
              \A i \in 1..Len(locals.stocks) :
                  \E n \in 1..Len(all_stocks') : all_stocks'[n] = locals.stocks[i]

\* C20: a page loop that hits an error on page k keeps the records of pages
\* 1..k-1 (its result is those records, not an empty list), and the records
\* the adapter collected are in the merged list once its step ends.
C20_PageErrorKeepsCollected == [][PageKeepsCollected /\ CollectedReachMerged]_vars

\* step 1 was reported as failed, yet it returned a KOSPI and a KOSDAQ
\* record: both markets' first pages were read, so the error came on a later
\* page, and both records are in the merged list
C20_Witness ==
    /\ prog = GenKR
    /\ pc = "g_github"
    /\ Len(trace) = 1
    /\ trace[1].src = "naver_all"
    /\ ~trace[1].ok
    /\ Len(trace[1].data) = 2
    /\ trace[1].data[1].Market = "KOSPI"
    /\ trace[1].data[2].Market = "KOSDAQ"
    /\ \A i \in 1..2 : \E n \in 1..Len(all_stocks) :
            all_stocks[n].code = trace[1].data[i].Symbol

\* a page loop of generate_symbols_json is running
PageLoopRuns == prog = GenKR /\ (pc = "g_naver" \/ (pc = "g_etf" /\ locals.market = "ETF"))

\* the ceiling of the loop that is running, as the claim gives it
Ceiling == IF pc = "g_naver" THEN 50 ELSE 20

\* the page about to be requested is within the ceiling
PageWithinCeiling == PageLoopRuns => locals.page \in 1..Ceiling

\* the loop goes on to its next iteration
SameLoop == PageLoopRuns /\ PageLoopRuns' /\ locals'.market = locals.market

\* a loop that goes on asks for the next page, and only after a page that
\* gave at least one new record; a loop that starts asks for page 1
PagesInOrder ==
    /\ SameLoop => /\ locals'.page = locals.page + 1
                   /\ Len(locals'.stocks) > Len(locals.stocks)
    /\ (PageLoopRuns /\ PageLoopRuns' /\ ~SameLoop) => locals'.page = 1

\* how many iterations the running loops can still make: those of the loop
\* that runs, and the whole KOSDAQ loop while the KOSPI loop runs
IterationsLeft ==
    IF ~PageLoopRuns THEN 0
    ELSE (Ceiling - locals.page + 1) + (IF locals.market = "KOSPI" THEN 50 ELSE 0)

\* every request (it returns or raises: requests.get has timeout=15) uses up
\* one of the iterations left, and none is left only when no loop runs
PageLoopsEnd ==
    /\ IterationsLeft \in Nat
    /\ PageLoopRuns => IterationsLeft' < IterationsLeft

\* C21: a page loop asks for pages 1, 2, 3, ... one at a time, asks for no
\* page after one that gave no new record, never asks for a page beyond its
\* ceiling (50 per market, 20 for the ETF table), and ends: each iteration
\* lowers a natural number.
C21_PaginationBounded == []PageWithinCeiling /\ [][PagesInOrder /\ PageLoopsEnd]_vars

\* the KOSDAQ loop is about to ask for its 50th page, every page before it
\* having given a new record
C21_Witness ==
    /\ prog = GenKR
    /\ pc = "g_naver"
    /\ locals.market = "KOSDAQ"
    /\ locals.page = 50
    /\ Len(locals.stocks) >= 49

\* a name-to-code lookup has returned
LookupReturned == prog \in {Search, NaverSearch} /\ pc = "done"

\* C22: a name-to-code lookup returns at most 5 candidates, for any query
\* and any response page, whichever extraction method found them.
C22_AtMostFiveCandidates == LookupReturned => Len(final_stocks) <= 5

\* the candidate's name, normalized, is the normalized query
ExactMatch(r) == NormalizedName(r.Name) = NormalizedSearch(locals.stock_name)

\* C23: in the list a name-to-code lookup returns, every candidate whose
\* normalized name equals the normalized query comes before every candidate
\* that is a substring match only or was found without a name match.
C23_ExactMatchesFirst ==
    (prog = Search /\ pc = "done") =>
        \A i, j \in 1..Len(final_stocks) :
            (ExactMatch(final_stocks[i]) /\ ~ExactMatch(final_stocks[j])) => i < j

\* every request the lookup made raised
EveryRequestRaised == trace # <<>> /\ \A i \in Indices(trace) : ~trace[i].ok

\* C24: an adapter whose network calls fail returns normally, with a failure
\* result (one that carries the cause), not with what it returns for a
\* search that succeeded and found nothing.
C24_FailureReported ==
    (prog = Search /\ pc = "done" /\ EveryRequestRaised) => ~result.success

\* none of these environment variables is set
KeyAbsent(names) == names \cap locals.env = {}

FinnhubKeyNames == {"FINNHUB_API_KEY", "NEXT_PUBLIC_FINNHUB_API_KEY"}

FmpKeyNames == {"FMP_API_KEY"}

\* the paid sources whose key is absent
Keyless ==
    (IF KeyAbsent(FinnhubKeyNames) THEN {"finnhub"} ELSE {})
        \cup (IF KeyAbsent(FmpKeyNames) THEN {"fmp"} ELSE {})

\* no request goes to a source whose key is absent, and its block is over
\* without a failure; at the end every block has run, in order, and what the
\* ticker files brought is in the list returned
KeylessNotRequested ==
    prog = GenUS =>
        /\ locals.requested \cap Keyless = {}
        /\ \A i \in Indices(trace) :
              trace[i].src \in Keyless => trace[i].ok /\ trace[i].data = <<>>
        /\ pc = "done" =>
              /\ [i \in Indices(trace) |-> trace[i].src] = <<"finnhub", "fmp">> \o github_sources
              /\ final_stocks = all_stocks
              /\ \A i \in Indices(trace) : \A k \in Indices(trace[i].data) :
                    (trace[i].src \in {"NASDAQ", "NYSE", "AMEX"}
                        /\ Truthy(Strip(trace[i].data[k].Symbol)))
                    => \E n \in Indices(final_stocks) :
                          final_stocks[n].code = Strip(trace[i].data[k].Symbol)

\* the block of a source whose key is absent adds nothing and hands over to
\* the next block
KeylessBlockSkipped ==
    (prog = GenUS /\ (\/ pc = "u_finnhub" /\ "finnhub" \in Keyless
                      \/ pc = "u_fmp" /\ "fmp" \in Keyless))
        => /\ all_stocks' = all_stocks
           /\ pc' = (IF pc = "u_finnhub" THEN "u_fmp" ELSE "u_github")

\* C25: in get_us_stocks, when the key of a paid source (Finnhub, FMP) is
\* absent from the environment, no request is made to that source, the
\* remaining sources are still run, and the run completes without a failure.
C25_MissingKeySkipsSource == []KeylessNotRequested /\ [][KeylessBlockSkipped]_vars

\* a run without any key that returned what a ticker file listed
C25_Witness ==
    /\ prog = GenUS
    /\ pc = "done"
    /\ locals.env = {}
    /\ locals.requested = {}
    /\ Len(trace) = 5
    /\ final_stocks # <<>>

\* the merge of one source result into the accumulated list: the primary
\* listings and the overlay's record are appended, a supplementing source
\* adds the records whose Symbol is not there yet
MergedAgain(step, stocks) ==
    IF step.src \in {"fdr_krx", "us_fdr", "us_github", "manual_overlay"}
    THEN stocks \o step.data
    ELSE stocks \o NewStocks(step.data, SymbolsOf(stocks))

\* the merge run over the source results tr, in their order
RECURSIVE SecondMerge(_, _)
SecondMerge(tr, stocks) ==
    IF tr = <<>> THEN stocks ELSE SecondMerge(Tail(tr), MergedAgain(Head(tr), stocks))

\* the dedup stage of the run's pipeline
DedupAgain(stocks) == IF prog = CompUS THEN DedupUS(stocks) ELSE DedupKR(stocks)

Written(name) == { trace[i].data : i \in { j \in Indices(trace) : trace[j].src = name } }

\* C27: in the symbols.json main writes, korea.count and us.count are the
\* lengths of korea.stocks and us.stocks and total is their sum; the summary
\* on stdout reports the same three numbers.
C27_CountsAgree ==
    prog = Main =>
        /\ \A f \in Written("symbols.json") :
              /\ f.korea.count = Len(f.korea.stocks)
              /\ f.us.count = Len(f.us.stocks)
              /\ f.total = f.korea.count + f.us.count
        /\ \A out \in Written("stdout") :
              \E f \in Written("symbols.json") :
                  /\ out.korea_count = f.korea.count
                  /\ out.us_count = f.us.count
                  /\ out.total_count = f.total

\* main has printed its summary for two non-empty lists of different lengths
C27_Witness ==
    /\ prog = Main
    /\ pc = "done"
    /\ \E out \in Written("stdout") :
          /\ out.korea_count = 2
          /\ out.us_count = 1
          /\ out.total_count = 3

\* the request did not succeed: no symbol, a package missing, no data, or
\* an exception while fetching or computing
RequestFailed == \E i \in Indices(trace) : ~trace[i].ok

\* a JSON body of the form {error: string}
ErrorBody(response) ==
    /\ response.content_type = "application/json"
    /\ DOMAIN response.body = {"error"}

\* C28: a request to the detail endpoint that does not succeed is answered
\* with a non-2xx status and a JSON body {error: string}.
C28_ErrorsAreJson ==
    (prog = Handler /\ pc = "done" /\ RequestFailed) =>
        /\ result.status \notin 200..299
        /\ ErrorBody(result)

\* the records a source result holds that pass the source's own test, in
\* the order of the result: its row loop run on empty lists
Supplied(step) ==
    LET none == [stocks |-> <<>>, codes |-> {}, raised |-> FALSE]
    IN  CASE step.src \in {"github_csv", "fdr_krx"} -> FrameRows(step.data, <<>>, {}).stocks
          [] step.src = "pykrx" -> PykrxRows(step.data, <<>>, {}).stocks
          [] step.src \in {"naver_all", "naver_etf", "manual_overlay"} ->
                [i \in 1..Len(step.data) |->
                    GRec(step.data[i].Symbol, step.data[i].Name, step.data[i].Market)]
          [] step.src = "finnhub" -> FinnhubItems(step.data, none).stocks
          [] step.src = "fmp" -> FmpItems(step.data, none).stocks
          [] OTHER -> TickerFileLines([i \in 1..Len(step.data) |-> step.data[i].Symbol],
                                      none, step.src).stocks

\* the sources, in the order they ran, that supplied this code
SuppliedBy(code) ==
    { i \in Indices(trace) :
        \E k \in Indices(Supplied(trace[i])) : Supplied(trace[i])[k].code = code }

\* the least of a non-empty set of indices
Earliest(S) == CHOOSE i \in S : \A j \in S : i <= j

\* the record of the first source that supplied the code
FirstSupplied(code) ==
    LET first == Earliest(SuppliedBy(code))
        recs == Supplied(trace[first])
    IN  recs[Earliest({ k \in Indices(recs) : recs[k].code = code })]

InGenerator == prog \in {GenKR, GenUS}

\* each collected record is the one its code was first supplied with
FirstSourceKept ==
    InGenerator =>
        \A k \in Indices(all_stocks) :
            /\ SuppliedBy(all_stocks[k].code) # {}
            /\ all_stocks[k] = FirstSupplied(all_stocks[k].code)

\* a step leaves the collected records where they are, and only appends
NeverReplaced ==
    InGenerator =>
        /\ Len(all_stocks') >= Len(all_stocks)
        /\ SubSeq(all_stocks', 1, Len(all_stocks)) = all_stocks

\* C29: in get_korea_stocks and get_us_stocks a record, once inserted, is
\* never replaced or removed, and the record of each code is the one of the
\* first source, in the order the sources run, that supplied the code in a
\* shape the source accepts.
C29_FirstSourceWins == []FirstSourceKept /\ [][NeverReplaced]_vars

\* a finished run in which a later source supplied a code again, under
\* another name, and the list returned holds the first one
C29_Witness ==
    /\ InGenerator
    /\ pc = "done"
    /\ \E k \in Indices(final_stocks) :
          LET by == SuppliedBy(final_stocks[k].code)
          IN  /\ Cardinality(by) >= 2
              /\ \E j \in by : \E n \in Indices(Supplied(trace[j])) :
                    /\ Supplied(trace[j])[n].code = final_stocks[k].code
                    /\ Supplied(trace[j])[n].name # final_stocks[k].name
              /\ final_stocks[k] = FirstSupplied(final_stocks[k].code)

\* the key a pipeline merges on: the trimmed code, in uppercase for US tickers
MergeKey(r) ==
    IF prog = CompUS THEN Upper(Strip(CodeOf(r))) ELSE Strip(CodeOf(r))

\* the keys of the list the run returned
FinalKeys == { MergeKey(final_stocks[n]) : n \in Indices(final_stocks) }

\* the keys of the valid records that the sources that succeeded returned
ValidKeys ==
    UNION { { MergeKey(trace[i].data[k]) :
                k \in { m \in Indices(trace[i].data) : Clean(trace[i].data[m]) } } :
            i \in { j \in SourceSteps : trace[j].ok } }

\* C30: merging loses no symbol: the key of every valid record (non-empty
\* code and name, correct shape) returned by a source that succeeded is the
\* key of a record of the final list.
C30_NoSymbolLost ==
    (pc = "done" /\ prog \in {CompKR, CompUS, GenKR}) => ValidKeys \subseteq FinalKeys

\* the merged list as it was when step i of the trace ran
MergedBefore(i) == SecondMerge(SubSeq(trace, 1, i - 1), <<>>)

\* step i supplied a record whose Symbol the merged list did not hold
Contributed(i) ==
    \E k \in Indices(trace[i].data) :
        trace[i].data[k].Symbol \notin SymbolsOf(MergedBefore(i))

\* the sources named by the audit list, in its order
Audited == [e \in Indices(sources_used) |-> StepOfLabel(sources_used[e].label)]

\* the audit list names its sources in the order they ran
AuditInRunOrder ==
    \A e, f \in Indices(Audited) :
        e < f => \E i, j \in SourceSteps :
                    i < j /\ trace[i].src = Audited[e] /\ trace[j].src = Audited[f]

\* C31: the 'sources' list of get_comprehensive_stock_listing and of
\* get_comprehensive_us_stock_listing has an entry for a source exactly when
\* the source contributed a record new to the merged list, in the order the
\* sources ran; a source that failed or supplied only known keys has none.
C31_AuditListsContributors ==
    (pc = "done" /\ prog \in {CompKR, CompUS}) =>
        /\ AuditInRunOrder
        /\ \A src \in { trace[i].src : i \in SourceSteps } :
              (\E e \in Indices(Audited) : Audited[e] = src)
                  <=> (\E i \in StepsFor(src) : Contributed(i))

\* C32: the test script and the detail endpoint classify every symbol alike
\* as Korean or US, and for every number of price rows take each of ma5,
\* ma20, ma60 and ma120 from the same place (the rolling mean of the window,
\* or the same fallback on a shorter frame).
C32_ScriptMatchesEndpoint ==
    (prog = TestScript /\ pc = "done") =>
        /\ locals.script.korea = locals.api.korea
        /\ locals.script.averages = locals.api.averages

\* C33: on every path of do_GET, a failure after the success status and
\* headers were sent included, exactly one response status is sent.
C33_OneStatusPerRequest ==
    (prog = Handler /\ pc = "done") => Len(locals.sent) = 1

====
